---- MODULE Spec2Model ----
(***************************************************************************)
(* Server-side core of the chat application: the realtime hub              *)
(* (backend/internal/ws, printed in src/backend/internal/crypto/keys.go),  *)
(* the store (backend/internal/db) and the HTTP handlers                   *)
(* (backend/internal/api/routes.go).                                       *)
(*                                                                         *)
(* Atomicity: one action per critical section of the hub lock, per SQL     *)
(* statement (the store has a single open connection, db.go:46) and per    *)
(* channel operation.  Goroutines interleave between those.                *)
(***************************************************************************)
EXTENDS Integers, Sequences, FiniteSets, TLC

(***************************************************************************)
(* Bounds                                                                  *)
(***************************************************************************)
NumUsers == 2          \* user ids 1..NumUsers hold a token
MaxConns == 3          \* WebSocket upgrades over a run
SendCap == 3           \* depth of Client.Send (256 in routes.go:528, scaled)
SendConns == 2         \* WebSocket upgrades over a run with inbound frames
MaxFrames == 2         \* inbound WebSocket frames handled over a run
MsgConns == 2          \* WebSocket upgrades over a run with REST traffic
MsgReqs == 1           \* REST requests over a run with connections changing
MaxReqs == 3           \* REST requests over a run
MaxInFlight == 2       \* REST handlers running at the same time
MaxTime == 1           \* clock ticks over a run
Limit == 1             \* page size of handleGetMessages (50 in routes.go:388, scaled)
MaxSockets == 3        \* WebSocket objects the client creates over a run
MaxFired == 1          \* message events at one WebSocket
UsersReqs == 2         \* fetchUsers calls in runs of the user list
UsersConns == 2        \* connections in runs of the user list (one beside the client's)
WideLimit == 2         \* page size of handleGetMessages where conversations stay below it
AuthConns == 1         \* WebSocket upgrades over a run with credentials checked
AuthReqs == 1          \* REST requests over a run with credentials checked
ClearReqs == 2         \* REST requests over a run with clear requests
MaxRows == 3           \* rows of table messages when a page is queried directly
MaxPage == 3           \* largest limit argument of a direct page query
DrainConns == 2        \* WebSocket upgrades over a fair run with writers running
WriteConns == 1        \* WebSocket upgrades over a run with writers running
FromConns == 2         \* WebSocket upgrades over a run with frames and REST traffic
FromReqs == 1          \* REST requests over a run with frames and REST traffic
FromFrames == 1        \* inbound frames over a run with frames and REST traffic
MaxMs == 1             \* milliseconds of the client's clock told apart within a second

Users == 1..NumUsers
Conns == 1..MaxConns
Reqs == 1..MaxReqs
Sockets == 1..MaxSockets
NoClient == 0          \* absent map entry / zero UserID

(***************************************************************************)
(* State                                                                   *)
(***************************************************************************)
VARIABLES
  Clients,     \* Hub.Clients: user id -> connection (NoClient when absent)
  send,        \* Client.Send: buffered frames per connection
  closed,      \* Client.Send has been closed
  cuser,       \* Client.UserID per connection (NoClient before creation)
  cpc,         \* position of the upgrade handler / ReadPump of a connection
  clook,       \* SendMessage local `client` of a reader (NoClient: !ok)
  cframe,      \* SendMessage local `data` of a reader
  hubPc,       \* position of Hub.handleEvents
  hubCur,      \* the `client` handleEvents received
  lastReg,     \* history: connection most recently inserted for a user
  nframes,     \* inbound frames handled so far
  crashed,     \* an unrecovered panic ended the process
  now,         \* wall clock, seconds
  lastSeen,    \* users.last_seen
  users,       \* rows of table users
  nextUserId,  \* AUTOINCREMENT of users.id
  invites,     \* rows of table invites
  messages,    \* rows of table messages
  nextMsgId,   \* AUTOINCREMENT of messages.id
  req,         \* REST handler goroutines: position, locals, response
  wpc,         \* position of the WritePump of a connection
  sock,        \* Client.Conn: open, broken (peer or network gone), closed (Conn.Close)
  wire,        \* history: frames the writer put on the socket
  uiMessages,  \* useMessagesStore.messages of the client: other user id -> list
  inFlightMessageFetches, \* other user id -> slot of the GET under way (0: none)
  sendCalls,   \* receiver -> slot of the POST a sendMessage awaits (0: none)
  activeChatUserId, \* useMessagesStore.activeChatUserId (0: null)
  received,    \* frames of its socket the client's onmessage has handled
  uiUsers,     \* useUsersStore.users of the client
  pendingPresence, \* _pendingPresence of usersStore.ts
  usersCalls,  \* fetchUsers calls awaiting api.getUsers: the responses under way
  currentSocket, \* websocketStore.ts currentSocket (0: null)
  readyState,  \* WebSocket the client created -> its readyState ("NONE": not created)
  handlers,    \* WebSocket -> onopen, onclose and onmessage are set
  fired,       \* WebSocket -> message events the browser has fired at it
  reconnectTimer, \* websocketStore.ts reconnectTimer (0: null)
  timers,      \* timeouts set and neither run nor cleared
  reconnectAttempts, \* websocketStore.ts reconnectAttempts
  manualDisconnect,  \* websocketStore.ts manualDisconnect
  isConnected, \* useWebSocketStore.isConnected
  stateSocket  \* useWebSocketStore.socket (0: null)

hubVars == <<Clients, send, closed, cuser, cpc, clook, cframe, hubPc, hubCur,
             lastReg, nframes, crashed, lastSeen>>
storeVars == <<users, nextUserId, invites, messages, nextMsgId>>
wVars == <<wpc, sock, wire>>
wsVars == <<currentSocket, readyState, handlers, fired, reconnectTimer, timers,
            reconnectAttempts, manualDisconnect, isConnected, stateSocket>>
feVars == <<uiMessages, inFlightMessageFetches, sendCalls, activeChatUserId,
            received, uiUsers, pendingPresence, usersCalls, wsVars>>
vars == <<hubVars, now, storeVars, req, wVars, feVars>>

(***************************************************************************)
(* Wire encoding                                                           *)
(***************************************************************************)
\* Username bound to a user id by its token claims.
Names == <<"alice", "bob", "carol", "dave">>
Username(u) == Names[u]

NoFrame == <<>>

\* ws.Message value
Message(type, from, to, content, nonce, ts, data) ==
  [Type |-> type, From |-> from, To |-> to, Content |-> content,
   Nonce |-> nonce, Timestamp |-> ts, Data |-> data]

\* Variant: the online flag is inverted.
Presence_Negated(u, name, online) ==
  <<[user_id |-> u, username |-> name, online |-> ~online]>>

\* json.Marshal(Presence{...})
Presence(u, name, online) == <<[user_id |-> u, username |-> name, online |-> online]>>

(***************************************************************************)
(* Key codec: base64.StdEncoding over bytes 0..255.  A text is a sequence  *)
(* of alphabet indices 0..63, Pad for '=', BadChar for any other character *)
(***************************************************************************)
Pad == 64
BadChar == 65

\* crypto.EncodeKey, and encoding/json of a []byte field
RECURSIVE EncodeKey(_)
EncodeKey(b) ==
  IF Len(b) = 0 THEN <<>>
  ELSE IF Len(b) = 1 THEN <<b[1] \div 4, (b[1] % 4) * 16, Pad, Pad>>
  ELSE IF Len(b) = 2
       THEN <<b[1] \div 4, (b[1] % 4) * 16 + (b[2] \div 16), (b[2] % 16) * 4, Pad>>
       ELSE <<b[1] \div 4, (b[1] % 4) * 16 + (b[2] \div 16),
              (b[2] % 16) * 4 + (b[3] \div 64), b[3] % 64>>
            \o EncodeKey(SubSeq(b, 4, Len(b)))

DecodeError == [ok |-> FALSE, val |-> <<>>]

\* crypto.DecodeKey: the bytes, or an error on a malformed text
RECURSIVE DecodeKey(_)
DecodeKey(t) ==
  IF Len(t) = 0 THEN [ok |-> TRUE, val |-> <<>>]
  ELSE IF Len(t) < 4 \/ t[1] \notin 0..63 \/ t[2] \notin 0..63 THEN DecodeError
  ELSE IF t[3] = Pad
       THEN IF t[4] = Pad /\ Len(t) = 4
            THEN [ok |-> TRUE, val |-> <<t[1] * 4 + (t[2] \div 16)>>]
            ELSE DecodeError
  ELSE IF t[3] \notin 0..63 THEN DecodeError
  ELSE IF t[4] = Pad
       THEN IF Len(t) = 4
            THEN [ok |-> TRUE, val |-> <<t[1] * 4 + (t[2] \div 16),
                                         (t[2] % 16) * 16 + (t[3] \div 4)>>]
            ELSE DecodeError
  ELSE IF t[4] \notin 0..63 THEN DecodeError
  ELSE LET rest == DecodeKey(SubSeq(t, 5, Len(t)))
       IN IF rest.ok
          THEN [ok |-> TRUE, val |-> <<t[1] * 4 + (t[2] \div 16),
                                       (t[2] % 16) * 16 + (t[3] \div 4),
                                       (t[3] % 4) * 64 + t[4]>> \o rest.val]
          ELSE DecodeError

\* Variant: the nonce bytes are written into the content field.
serializeMessage_NonceAsContent(msg) ==
  [type |-> msg.Type,
   from |-> msg.From,
   to |-> IF msg.To = 0 THEN <<>> ELSE <<msg.To>>,
   content |-> IF msg.Nonce = <<>> THEN <<>> ELSE <<EncodeKey(msg.Nonce)>>,
   nonce |-> IF msg.Nonce = <<>> THEN <<>> ELSE <<EncodeKey(msg.Nonce)>>,
   timestamp |-> msg.Timestamp,
   data |-> msg.Data]

\* Hub.serializeMessage: json.Marshal with omitempty on to/content/nonce/data.
\* An omitted field is <<>>, a present one a one-element tuple; byte fields
\* are written as base64 text (data keeps the JSON value those bytes spell).
serializeMessage(msg) ==
  [type |-> msg.Type,
   from |-> msg.From,
   to |-> IF msg.To = 0 THEN <<>> ELSE <<msg.To>>,
   content |-> IF msg.Content = <<>> THEN <<>> ELSE <<EncodeKey(msg.Content)>>,
   nonce |-> IF msg.Nonce = <<>> THEN <<>> ELSE <<EncodeKey(msg.Nonce)>>,
   timestamp |-> msg.Timestamp,
   data |-> msg.Data]

(***************************************************************************)
(* Channel send inside `select { case ch <- data: default: }`              *)
(***************************************************************************)
\* Variant: the send succeeds whatever the buffer holds.
TrySend_Unbounded(q, data) == Append(q, data)

\* Variant: a full buffer gives up its oldest frame for the new one.
TrySend_DropOldest(q, data) ==
  IF Len(q) < SendCap THEN Append(q, data) ELSE Append(Tail(q), data)

\* Buffer after a non-blocking send on an open channel.
TrySend(q, data) == IF Len(q) < SendCap THEN Append(q, data) ELSE q

\* Non-blocking send of `data` to every connection of the sequence `order`.
RECURSIVE SendAll(_, _, _)
SendAll(snd, order, data) ==
  IF order = <<>> THEN snd
  ELSE SendAll([snd EXCEPT ![Head(order)] = TrySend(@, data)], Tail(order), data)

\* All orders in which a Go map range can visit the set S.
Orders(S) ==
  {o \in [1..Cardinality(S) -> S] : \A i, j \in 1..Cardinality(S) : i # j => o[i] # o[j]}

\* Variant: the `online` argument is not used, every frame says online.
notifyPresence_AlwaysOnline(snd, clients, userID, username, online) ==
  LET data == [type |-> "presence", from |-> 0, to |-> <<>>, content |-> <<>>,
               nonce |-> <<>>, timestamp |-> now,
               data |-> <<[user_id |-> userID, username |-> username, online |-> TRUE]>>]
      targets == {clients[u] : u \in {v \in Users : clients[v] # NoClient}}
  IN [c \in Conns |-> IF c \in targets /\ Len(snd[c]) < SendCap
                       THEN Append(snd[c], data) ELSE snd[c]]

\* Hub.notifyPresence: under RLock, non-blocking send to every map entry.
notifyPresence(snd, clients, userID, username, online) ==
  LET data == serializeMessage(Message("presence", 0, 0, <<>>, <<>>, now,
                                       Presence(userID, username, online)))
      targets == {clients[u] : u \in {v \in Users : clients[v] # NoClient}}
  IN SendAll(snd, CHOOSE o \in Orders(targets) : TRUE, data)

\* Hub.IsOnline
IsOnline(userID) == Clients[userID] # NoClient

\* Hub.GetOnlineUsers
GetOnlineUsers == {u \in Users : Clients[u] # NoClient}

(***************************************************************************)
(* Initial state: NewHub(), no connection yet                              *)
(***************************************************************************)
HubInit ==
  /\ Clients = [u \in Users |-> NoClient]
  /\ send = [c \in Conns |-> <<>>]
  /\ closed = [c \in Conns |-> FALSE]
  /\ cuser = [c \in Conns |-> NoClient]
  /\ cpc = [c \in Conns |-> "none"]
  /\ clook = [c \in Conns |-> NoClient]
  /\ cframe = [c \in Conns |-> NoFrame]
  /\ hubPc = "idle"
  /\ hubCur = NoClient
  /\ lastReg = [u \in Users |-> NoClient]
  /\ nframes = 0
  /\ crashed = FALSE
  /\ lastSeen = [u \in Users |-> 0]
  /\ wpc = [c \in Conns |-> "none"]
  /\ sock = [c \in Conns |-> "open"]
  /\ wire = [c \in Conns |-> <<>>]

(***************************************************************************)
(* WebSocket upgrade handler                                               *)
(***************************************************************************)
\* handleWebSocket up to `hub.Register <- client`: the client is built and
\* the handler blocks on the unbuffered Register channel.
handleWebSocket(c, u) ==
  /\ ~crashed
  /\ cpc[c] = "none"
  /\ \A d \in Conns : d < c => cpc[d] # "none"
  /\ cuser' = [cuser EXCEPT ![c] = u]
  /\ cpc' = [cpc EXCEPT ![c] = "register"]
  /\ UNCHANGED <<Clients, send, closed, clook, cframe, hubPc, hubCur, lastReg,
                 nframes, crashed, lastSeen, now, storeVars, req>>
  /\ UNCHANGED wVars
  /\ UNCHANGED feVars

\* `go client.WritePump(); go client.ReadPump()`: the reader starts reading.
ReadPump_Start(c) ==
  /\ ~crashed
  /\ cpc[c] = "handed"
  /\ cpc' = [cpc EXCEPT ![c] = "reading"]
  /\ UNCHANGED <<Clients, send, closed, cuser, clook, cframe, hubPc, hubCur,
                 lastReg, nframes, crashed, lastSeen, now, storeVars, req>>
  /\ UNCHANGED wVars
  /\ UNCHANGED feVars

\* ReadPump: ReadMessage returns an error (peer close, local close, missed
\* pong); the loop breaks and the deferred `c.Hub.unregister <- c` blocks.
ReadPump_Error(c) ==
  /\ ~crashed
  /\ cpc[c] = "reading"
  /\ cpc' = [cpc EXCEPT ![c] = "unregister"]
  /\ UNCHANGED <<Clients, send, closed, cuser, clook, cframe, hubPc, hubCur,
                 lastReg, nframes, crashed, lastSeen, now, storeVars, req>>
  /\ UNCHANGED wVars
  /\ UNCHANGED feVars

(***************************************************************************)
(* Hub event loop                                                          *)
(***************************************************************************)
\* `case client := <-h.Register`: the rendezvous completes the handler's send.
handleEvents_RecvRegister(c) ==
  /\ ~crashed
  /\ hubPc = "idle"
  /\ cpc[c] = "register"
  /\ hubPc' = "register"
  /\ hubCur' = c
  /\ cpc' = [cpc EXCEPT ![c] = "handed"]
  /\ UNCHANGED <<Clients, send, closed, cuser, clook, cframe, lastReg, nframes,
                 crashed, lastSeen, now, storeVars, req>>
  /\ UNCHANGED wVars
  /\ UNCHANGED feVars

\* `delete(h.Clients, client.UserID); close(existing.Send)` when an entry exists.
EvictExisting(cl, existing) ==
  IF existing # NoClient THEN [cl EXCEPT ![existing] = TRUE] ELSE cl

\* Variant: the new client is not stored.
InsertClient_Skip(clients, uid, client) == clients

\* Variant: on a replacement the old entry is deleted and the new client is
\* not stored.
InsertClient_DeleteOnly(clients, uid, client) ==
  [clients EXCEPT ![uid] = IF @ = NoClient THEN client ELSE NoClient]

\* Variant: the new client is stored under the next user's key.
InsertClient_OtherKey(clients, uid, client) ==
  [clients EXCEPT ![(uid % NumUsers) + 1] = client]

\* `h.Clients[client.UserID] = client`
InsertClient(clients, uid, client) == [clients EXCEPT ![uid] = client]

\* Register branch, h.mu.Lock() .. h.mu.Unlock(): evict, initial view, insert.
handleEvents_Register ==
  /\ ~crashed
  /\ hubPc = "register"
  /\ LET client == hubCur
         uid == cuser[client]
         existing == Clients[uid]
         others == {id \in Users : id # uid /\ Clients[id] # NoClient}
     IN \E o \in Orders(others) :
          /\ closed' = EvictExisting(closed, existing)
          /\ send' = [send EXCEPT ![client] =
                 LET RECURSIVE Fill(_, _)
                     Fill(q, i) ==
                       IF i > Len(o) THEN q
                       ELSE Fill(TrySend(q, serializeMessage(
                                   Message("presence", 0, 0, <<>>, <<>>, now,
                                     Presence(cuser[Clients[o[i]]],
                                              Username(cuser[Clients[o[i]]]), TRUE)))),
                                 i + 1)
                 IN Fill(@, 1)]
          /\ Clients' = InsertClient(Clients, uid, client)
          /\ lastReg' = [lastReg EXCEPT ![uid] = client]
  /\ hubPc' = "registerNotify"
  /\ UNCHANGED <<cuser, cpc, clook, cframe, hubCur, nframes, crashed, lastSeen, now, storeVars, req>>
  /\ UNCHANGED wVars
  /\ UNCHANGED feVars

\* Register branch after Unlock: notifyPresence(.., true); db.UpdateLastSeen.
handleEvents_RegisterNotify ==
  /\ ~crashed
  /\ hubPc = "registerNotify"
  /\ send' = notifyPresence(send, Clients, cuser[hubCur], Username(cuser[hubCur]), TRUE)
  /\ \E ok \in BOOLEAN :
       lastSeen' = IF ok THEN [lastSeen EXCEPT ![cuser[hubCur]] = now] ELSE lastSeen
  /\ hubPc' = "idle"
  /\ UNCHANGED <<Clients, closed, cuser, cpc, clook, cframe, hubCur, lastReg,
                 nframes, crashed, now, storeVars, req>>
  /\ UNCHANGED wVars
  /\ UNCHANGED feVars

\* `case client := <-h.unregister`: completes the reader's deferred send;
\* the reader then closes its socket and ends.
handleEvents_RecvUnregister(c) ==
  /\ ~crashed
  /\ hubPc = "idle"
  /\ cpc[c] = "unregister"
  /\ hubPc' = "unregister"
  /\ hubCur' = c
  /\ cpc' = [cpc EXCEPT ![c] = "done"]
  /\ sock' = [sock EXCEPT ![c] = "closed"]
  /\ UNCHANGED <<Clients, send, closed, cuser, clook, cframe, lastReg, nframes,
                 crashed, lastSeen, now, storeVars, req, wpc, wire>>
  /\ UNCHANGED feVars

\* Variant: compares by user id alone.
IsActiveClient_ByUser(clients, client) == clients[cuser[client]] # NoClient

\* The identity test of the unregister branch.
IsActiveClient(clients, client) == clients[cuser[client]] = client

\* unregister branch, h.mu.Lock() .. h.mu.Unlock().
handleEvents_Unregister ==
  /\ ~crashed
  /\ hubPc = "unregister"
  /\ IF IsActiveClient(Clients, hubCur)
     THEN /\ Clients' = [Clients EXCEPT ![cuser[hubCur]] = NoClient]
          /\ closed' = [closed EXCEPT ![hubCur] = TRUE]
          /\ hubPc' = "unregisterNotify"
     ELSE /\ hubPc' = "idle"
          /\ UNCHANGED <<Clients, closed>>
  /\ UNCHANGED <<send, cuser, cpc, clook, cframe, hubCur, lastReg, nframes,
                 crashed, lastSeen, now, storeVars, req>>
  /\ UNCHANGED wVars
  /\ UNCHANGED feVars

\* unregister branch after Unlock: notifyPresence(.., false).
handleEvents_UnregisterNotify ==
  /\ ~crashed
  /\ hubPc = "unregisterNotify"
  /\ send' = notifyPresence(send, Clients, cuser[hubCur], Username(cuser[hubCur]), FALSE)
  /\ hubPc' = "idle"
  /\ UNCHANGED <<Clients, closed, cuser, cpc, clook, cframe, hubCur, lastReg,
                 nframes, crashed, lastSeen, now, storeVars, req>>
  /\ UNCHANGED wVars
  /\ UNCHANGED feVars

(***************************************************************************)
(* Writer: Client.WritePump, and the peer's end of the socket              *)
(***************************************************************************)
\* What the writer puts on the socket for `!ok`.
CloseFrame == [type |-> "close"]

\* Variant: an accepted frame goes out twice.
WriteMessage_Twice(w, s, frame) ==
  IF s = "open" THEN Append(Append(w, frame), frame) ELSE w

\* Conn.WriteMessage: the frame reaches the wire when the socket is open, and
\* fails otherwise.
WriteMessage(w, s, frame) == IF s = "open" THEN Append(w, frame) ELSE w

\* `go client.WritePump()`, after the send on Register has returned: the
\* writer creates its ticker and reaches the select.
WritePump_Start(c) ==
  /\ ~crashed
  /\ wpc[c] = "none"
  /\ cpc[c] \notin {"none", "register"}
  /\ wpc' = [wpc EXCEPT ![c] = "select"]
  /\ UNCHANGED <<hubVars, now, storeVars, req, sock, wire>>
  /\ UNCHANGED feVars

\* `case message, ok := <-c.Send`: the head of the queue is received and
\* written as a text frame, the result of the write is not looked at; on a
\* closed and drained queue the writer writes a close frame and returns, and
\* its deferred function closes the socket.
WritePump_Recv(c) ==
  /\ ~crashed
  /\ wpc[c] = "select"
  /\ IF send[c] # <<>>
     THEN /\ send' = [send EXCEPT ![c] = Tail(@)]
          /\ wire' = [wire EXCEPT ![c] = WriteMessage(@, sock[c], Head(send[c]))]
          /\ UNCHANGED <<wpc, sock>>
     ELSE /\ closed[c]
          /\ wire' = [wire EXCEPT ![c] = WriteMessage(@, sock[c], CloseFrame)]
          /\ wpc' = [wpc EXCEPT ![c] = "done"]
          /\ sock' = [sock EXCEPT ![c] = "closed"]
          /\ UNCHANGED send
  /\ UNCHANGED <<Clients, closed, cuser, cpc, clook, cframe, hubPc, hubCur,
                 lastReg, nframes, crashed, lastSeen, now, storeVars, req>>
  /\ UNCHANGED feVars

\* `case <-ticker.C`: a ping is written; if the write fails the writer
\* returns and its deferred function closes the socket.
WritePump_Ping(c) ==
  /\ ~crashed
  /\ wpc[c] = "select"
  /\ IF sock[c] = "open"
     THEN UNCHANGED <<wpc, sock>>
     ELSE /\ wpc' = [wpc EXCEPT ![c] = "done"]
          /\ sock' = [sock EXCEPT ![c] = "closed"]
  /\ UNCHANGED <<hubVars, now, storeVars, req, wire>>
  /\ UNCHANGED feVars

\* The peer goes away or the network breaks: writes fail from now on.
PeerGone(c) ==
  /\ ~crashed
  /\ cpc[c] # "none"
  /\ sock[c] = "open"
  /\ sock' = [sock EXCEPT ![c] = "broken"]
  /\ UNCHANGED <<hubVars, now, storeVars, req, wpc, wire>>
  /\ UNCHANGED feVars

\* ReadMessage on a socket that is broken or was closed returns an error.
ReadPump_ErrorDead(c) == sock[c] # "open" /\ ReadPump_Error(c)

(***************************************************************************)
(* Reader: inbound frames, forwarded with Hub.SendMessage                  *)
(***************************************************************************)
WsTypes == {"typing", "call_offer"}

\* The frame types handleMessage's switch has a case for.
ForwardTypes == {"typing", "call_offer", "call_answer", "call_ice", "call_end"}

\* Inbound frames: whether json.Unmarshal reads a WSMessage, its type, and
\* its payload (<<>> when the payload does not unmarshal, else <<to>>; a
\* payload without "to" gives 0).
FrameInputs ==
  [parses : BOOLEAN, type : WsTypes \cup {"message"},
   payload : {<<>>} \cup {<<to>> : to \in {0} \cup Users}]

\* The frame reaches Hub.SendMessage with a user id the hub can hold.
Forwards(f) ==
  /\ f.parses
  /\ f.type \in ForwardTypes
  /\ f.payload # <<>>
  /\ f.payload[1] \in Users

\* ReadPump's `continue` on a frame that does not parse, handleMessage on a
\* type without a case or a payload that does not unmarshal, and SendMessage
\* finding no entry for user id 0: the frame is read and nothing is sent.
ReadPump_Skip(c, f) ==
  /\ ~crashed
  /\ cpc[c] = "reading"
  /\ nframes < MaxFrames
  /\ ~Forwards(f)
  /\ nframes' = nframes + 1
  /\ UNCHANGED <<Clients, send, closed, cuser, cpc, clook, cframe, hubPc, hubCur,
                 lastReg, crashed, lastSeen, now, storeVars, req>>
  /\ UNCHANGED wVars
  /\ UNCHANGED feVars

\* Variant: looks up the sender's own connection.
handleMessage_Lookup_ToSender(c, type, to) ==
  /\ ~crashed
  /\ cpc[c] = "reading"
  /\ nframes < MaxFrames
  /\ nframes' = nframes + 1
  /\ clook' = [clook EXCEPT ![c] = Clients[cuser[c]]]
  /\ cframe' = [cframe EXCEPT ![c] =
        <<serializeMessage(Message(type, cuser[c], to, <<>>, <<>>, now,
                                   <<[to |-> to, payload |-> type]>>))>>]
  /\ cpc' = [cpc EXCEPT ![c] = "sending"]
  /\ UNCHANGED <<Clients, send, closed, cuser, hubPc, hubCur, lastReg, crashed,
                 lastSeen, now, storeVars, req>>
  /\ UNCHANGED wVars
  /\ UNCHANGED feVars

\* Variant: From is read from the payload.
handleMessage_Lookup_FromPayload(c, type, to) ==
  /\ ~crashed
  /\ cpc[c] = "reading"
  /\ nframes < MaxFrames
  /\ nframes' = nframes + 1
  /\ clook' = [clook EXCEPT ![c] = Clients[to]]
  /\ cframe' = [cframe EXCEPT ![c] =
        <<serializeMessage(Message(type, to, to, <<>>, <<>>, now,
                                   <<[to |-> to, payload |-> type]>>))>>]
  /\ cpc' = [cpc EXCEPT ![c] = "sending"]
  /\ UNCHANGED <<Clients, send, closed, cuser, hubPc, hubCur, lastReg, crashed,
                 lastSeen, now, storeVars, req>>
  /\ UNCHANGED wVars
  /\ UNCHANGED feVars

\* Client.handleMessage up to the end of SendMessage's RLock section:
\* the envelope is built and serialised, the receiver is looked up.
handleMessage_Lookup(c, type, to) ==
  /\ ~crashed
  /\ cpc[c] = "reading"
  /\ nframes < MaxFrames
  /\ nframes' = nframes + 1
  /\ clook' = [clook EXCEPT ![c] = Clients[to]]
  /\ cframe' = [cframe EXCEPT ![c] =
        <<serializeMessage(Message(type, cuser[c], to, <<>>, <<>>, now,
                                   <<[to |-> to, payload |-> type]>>))>>]
  /\ cpc' = [cpc EXCEPT ![c] = "sending"]
  /\ UNCHANGED <<Clients, send, closed, cuser, hubPc, hubCur, lastReg, crashed,
                 lastSeen, now, storeVars, req>>
  /\ UNCHANGED wVars
  /\ UNCHANGED feVars

\* SendMessage after RUnlock: `if ok { select { case client.Send <- data: default: } }`.
\* A send on a closed channel panics; in a reader goroutine nothing recovers it.
handleMessage_Enqueue(c) ==
  /\ ~crashed
  /\ cpc[c] = "sending"
  /\ IF clook[c] = NoClient
     THEN UNCHANGED <<send, crashed>>
     ELSE IF closed[clook[c]]
          THEN crashed' = TRUE /\ UNCHANGED send
          ELSE /\ send' = [send EXCEPT ![clook[c]] = TrySend(@, cframe[c][1])]
               /\ UNCHANGED crashed
  /\ clook' = [clook EXCEPT ![c] = NoClient]
  /\ cframe' = [cframe EXCEPT ![c] = NoFrame]
  /\ cpc' = [cpc EXCEPT ![c] = "reading"]
  /\ UNCHANGED <<Clients, closed, cuser, hubPc, hubCur, lastReg, nframes,
                 lastSeen, now, storeVars, req>>
  /\ UNCHANGED wVars
  /\ UNCHANGED feVars

(***************************************************************************)
(* Store: table messages                                                   *)
(***************************************************************************)
\* Rows of the conversation of a and b (the WHERE clause of the SELECT).
Between(msgs, a, b) ==
  {m \in msgs : \/ (m.sender_id = a /\ m.receiver_id = b)
                \/ (m.sender_id = b /\ m.receiver_id = a)}

\* db.GetMessagesBetween with offset 0: ORDER BY timestamp DESC LIMIT limit.
\* SQL leaves the order of rows with equal timestamps open, so this is the
\* set of results the statement may return.
GetMessagesBetween(msgs, a, b, limit) ==
  LET conv == Between(msgs, a, b)
      n == IF Cardinality(conv) < limit THEN Cardinality(conv) ELSE limit
  IN {SubSeq(o, 1, n) :
        o \in {p \in Orders(conv) :
                 \A i, j \in 1..Len(p) : i < j => p[i].timestamp >= p[j].timestamp}}

\* An UPDATE without the direction in its WHERE clause.
MarkMessagesAsRead_BothWays(msgs, senderID, receiverID) ==
  {IF m \in Between(msgs, senderID, receiverID) /\ ~m.read
     THEN [m EXCEPT !.read = TRUE] ELSE m : m \in msgs}

\* db.MarkMessagesAsRead
MarkMessagesAsRead(msgs, senderID, receiverID) ==
  {IF m.sender_id = senderID /\ m.receiver_id = receiverID /\ ~m.read
     THEN [m EXCEPT !.read = TRUE] ELSE m : m \in msgs}

\* The row db.SaveMessage inserts: id from AUTOINCREMENT, timestamp from
\* CURRENT_TIMESTAMP, read from its default.
NewMessageRow(id, senderID, receiverID, msgType, content, nonce) ==
  [id |-> id, sender_id |-> senderID, receiver_id |-> receiverID,
   type |-> msgType, content |-> content, nonce |-> nonce,
   timestamp |-> now, read |-> FALSE]

\* db.GetMessageByID: <<row>>, or <<>> for (nil, nil)
GetMessageByID(msgs, id) ==
  IF \E m \in msgs : m.id = id THEN <<CHOOSE m \in msgs : m.id = id>> ELSE <<>>

\* encoding/json of a db.Message in a response body
EncodeRow(m) == [m EXCEPT !.content = EncodeKey(@), !.nonce = EncodeKey(@)]

EncodeRows(rows) == [i \in 1..Len(rows) |-> EncodeRow(rows[i])]

(***************************************************************************)
(* REST handlers.  A request slot is one handler goroutine; status 0 means *)
(* no response yet, Aborted that a panic ended the handler (net/http       *)
(* recovers it and drops the connection).                                  *)
(***************************************************************************)
Aborted == 0 - 1

IdleReq ==
  [pc |-> "idle", kind |-> "none", caller |-> 0, other |-> 0, code |-> "",
   name |-> "", key |-> <<>>, row |-> <<>>, rows |-> <<>>, client |-> NoClient, frame |-> NoFrame,
   startId |-> 0, userCount |-> 0, status |-> 0, body |-> <<>>]

\* A slot is taken in order of arrival.
Fresh(r) ==
  /\ req[r].pc = "idle"
  /\ \A q \in Reqs : q < r => req[q].pc # "idle"
  /\ Cardinality({q \in Reqs : req[q].pc \notin {"idle", "done"}}) < MaxInFlight

\* jsonResponse / errorResponse, or the end of a panicking handler.  The
\* handler's locals end with it; of a request answered 200 the slot keeps
\* who asked what, of any other only the kind and the status.
Respond(rq, status, body) ==
  IF status = 200
  THEN [rq EXCEPT !.pc = "done", !.status = status, !.body = body,
                  !.name = "", !.key = <<>>,
                  !.row = <<>>, !.rows = <<>>, !.client = NoClient, !.frame = NoFrame]
  ELSE [IdleReq EXCEPT !.pc = "done", !.kind = rq.kind, !.status = status, !.body = body]

\* The tail of Hub.SendMessage for a REST caller: the queues after the
\* select-send, or "panic" for a send on a closed channel.
SendMessage_Enqueue(client, data) ==
  IF client = NoClient THEN [panic |-> FALSE, send |-> send]
  ELSE IF closed[client] THEN [panic |-> TRUE, send |-> send]
  ELSE [panic |-> FALSE, send |-> [send EXCEPT ![client] = TrySend(@, data)]]

\* Request fields: type ""; content "", "!", "YQ=="; nonce "", "bg==".
TypeInputs == {""}
TextInputs == {<<>>, <<BadChar>>, <<24, 16, Pad, Pad>>}
NonceInputs == {<<>>, <<27, 32, Pad, Pad>>}

\* handleSendMessage up to the INSERT of db.SaveMessage.
handleSendMessage_Save(r, senderID, receiverID, type, content, nonce) ==
  /\ ~crashed
  /\ Fresh(r)
  /\ LET rq == [IdleReq EXCEPT !.kind = "post", !.caller = senderID, !.other = receiverID]
         msgType == IF type = "" THEN "text" ELSE type
     IN IF receiverID = 0 \/ content = <<>> \/ nonce = <<>>
             \/ ~DecodeKey(content).ok \/ ~DecodeKey(nonce).ok
        THEN /\ req' = [req EXCEPT ![r] = Respond(rq, 400, <<>>)]
             /\ UNCHANGED <<messages, nextMsgId>>
        ELSE \E ok \in BOOLEAN :
               IF ok
               THEN /\ messages' = messages \cup
                         {NewMessageRow(nextMsgId, senderID, receiverID, msgType,
                                        DecodeKey(content).val, DecodeKey(nonce).val)}
                    /\ nextMsgId' = nextMsgId + 1
                    /\ req' = [req EXCEPT ![r] =
                         [rq EXCEPT !.pc = "fetch", !.startId = nextMsgId,
                                    !.row = <<[content |-> DecodeKey(content).val,
                                               nonce |-> DecodeKey(nonce).val]>>]]
               ELSE /\ req' = [req EXCEPT ![r] = Respond(rq, 500, <<>>)]
                    /\ UNCHANGED <<messages, nextMsgId>>
  /\ UNCHANGED <<hubVars, now, users, nextUserId, invites>>
  /\ UNCHANGED wVars
  /\ UNCHANGED feVars

\* db.SaveMessage: `return GetMessageByID(id)`; an error answers 500.
\* The locals content and nonce stay in the slot next to msg.
handleSendMessage_Fetch(r) ==
  /\ ~crashed
  /\ req[r].pc = "fetch" /\ req[r].kind = "post"
  /\ \E ok \in BOOLEAN :
       req' = [req EXCEPT ![r] =
                 IF ok THEN [req[r] EXCEPT !.pc = "online",
                                      !.rows = GetMessageByID(messages, req[r].startId)]
                 ELSE Respond(req[r], 500, <<>>)]
  /\ UNCHANGED <<hubVars, now, storeVars>>
  /\ UNCHANGED wVars
  /\ UNCHANGED feVars

\* `if hub.IsOnline(req.ReceiverID)`; without a receiver the message is
\* returned at once.  Building the envelope dereferences msg.
handleSendMessage_IsOnline(r) ==
  /\ ~crashed
  /\ req[r].pc = "online" /\ req[r].kind = "post"
  /\ req' = [req EXCEPT ![r] =
       IF IsOnline(req[r].other)
       THEN IF req[r].rows = <<>> THEN Respond(req[r], Aborted, <<>>)
            ELSE [req[r] EXCEPT !.pc = "lookup"]
       ELSE Respond(req[r], 200, EncodeRows(req[r].rows))]
  /\ UNCHANGED <<hubVars, now, storeVars>>
  /\ UNCHANGED wVars
  /\ UNCHANGED feVars

\* hub.SendMessage up to RUnlock: envelope serialised, receiver looked up.
handleSendMessage_Lookup(r) ==
  /\ ~crashed
  /\ req[r].pc = "lookup" /\ req[r].kind = "post"
  /\ req' = [req EXCEPT ![r] =
       [req[r] EXCEPT !.pc = "enqueue",
                 !.client = Clients[req[r].other],
                 !.frame = <<serializeMessage(
                     Message("message", req[r].caller, req[r].other, req[r].row[1].content,
                             req[r].row[1].nonce, req[r].rows[1].timestamp, <<>>))>>]]
  /\ UNCHANGED <<hubVars, now, storeVars>>
  /\ UNCHANGED wVars
  /\ UNCHANGED feVars

\* hub.SendMessage after RUnlock, then jsonResponse(w, 200, msg).
handleSendMessage_Enqueue(r) ==
  /\ ~crashed
  /\ req[r].pc = "enqueue" /\ req[r].kind = "post"
  /\ LET out == SendMessage_Enqueue(req[r].client, req[r].frame[1])
     IN /\ send' = out.send
        /\ req' = [req EXCEPT ![r] =
             IF out.panic THEN Respond(req[r], Aborted, <<>>)
             ELSE Respond(req[r], 200, EncodeRows(req[r].rows))]
  /\ UNCHANGED <<Clients, closed, cuser, cpc, clook, cframe, hubPc, hubCur,
                 lastReg, nframes, crashed, lastSeen, now, storeVars>>
  /\ UNCHANGED wVars
  /\ UNCHANGED feVars

\* handleGetMessages up to db.GetMessagesBetween with a page of `limit` rows:
\* the path id is looked up in users (404), then the page is read (500 on a
\* store error).
handleGetMessages_QueryPage(r, userID, otherID, limit) ==
  /\ ~crashed
  /\ Fresh(r)
  /\ LET rq == [IdleReq EXCEPT !.kind = "get", !.caller = userID, !.other = otherID,
                               !.startId = nextMsgId]
     IN IF ~\E u \in users : u.id = otherID
        THEN req' = [req EXCEPT ![r] = Respond(rq, 404, <<>>)]
        ELSE \E ok \in BOOLEAN :
               IF ok
               THEN \E res \in GetMessagesBetween(messages, userID, otherID, limit) :
                      req' = [req EXCEPT ![r] = [rq EXCEPT !.pc = "mark", !.rows = res]]
               ELSE req' = [req EXCEPT ![r] = Respond(rq, 500, <<>>)]
  /\ UNCHANGED <<hubVars, now, storeVars>>
  /\ UNCHANGED wVars
  /\ UNCHANGED feVars

\* handleGetMessages up to db.GetMessagesBetween, with `limit := 50` scaled
\* to Limit.
handleGetMessages_Query(r, userID, otherID) ==
  handleGetMessages_QueryPage(r, userID, otherID, Limit)

\* db.GetAllUsers: the rows of users ordered by username (Names ascend with
\* the ids).
RECURSIVE GetAllUsers(_)
GetAllUsers(table) ==
  IF table = {} THEN <<>>
  ELSE LET last == CHOOSE u \in table : \A v \in table : v.id <= u.id
       IN Append(GetAllUsers(table \ {last}), last)

\* handleGetUsers up to db.GetAllUsers (500 on a store error).
handleGetUsers_Query(r) ==
  /\ ~crashed
  /\ Fresh(r)
  /\ LET rq == [IdleReq EXCEPT !.kind = "users"]
     IN \E ok \in BOOLEAN :
          req' = [req EXCEPT ![r] =
                    IF ~ok THEN Respond(rq, 500, <<>>)
                    ELSE IF users = {} THEN Respond(rq, 200, <<>>)
                    ELSE [rq EXCEPT !.pc = "flags", !.rows = GetAllUsers(users)]]
  /\ UNCHANGED <<hubVars, now, storeVars>>
  /\ UNCHANGED wVars
  /\ UNCHANGED feVars

\* handleGetUsers, one turn of its loop: hub.IsOnline(u.ID) of the next row
\* is read under the hub's lock and the entry appended; after the last row
\* the list is the answer.
handleGetUsers_IsOnline(r) ==
  /\ ~crashed
  /\ req[r].pc = "flags" /\ req[r].kind = "users"
  /\ LET u == req[r].rows[Len(req[r].body) + 1]
         response == Append(req[r].body,
                            [id |-> u.id, username |-> u.username,
                             online |-> IsOnline(u.id)])
     IN req' = [req EXCEPT ![r] =
                  IF Len(response) = Len(req[r].rows)
                  THEN Respond(req[r], 200, response)
                  ELSE [req[r] EXCEPT !.body = response]]
  /\ UNCHANGED <<hubVars, now, storeVars>>
  /\ UNCHANGED wVars
  /\ UNCHANGED feVars

\* `if err := db.MarkMessagesAsRead(otherID, userID); err == nil { .. }`:
\* when the UPDATE fails the page is still answered with 200.
handleGetMessages_Mark(r) ==
  /\ ~crashed
  /\ req[r].pc = "mark" /\ req[r].kind = "get"
  /\ \E ok \in BOOLEAN :
       IF ok
       THEN /\ messages' = MarkMessagesAsRead(messages, req[r].other, req[r].caller)
            /\ req' = [req EXCEPT ![r] = [req[r] EXCEPT !.pc = "online"]]
       ELSE /\ req' = [req EXCEPT ![r] = Respond(req[r], 200, EncodeRows(req[r].rows))]
            /\ UNCHANGED messages
  /\ UNCHANGED <<hubVars, now, users, nextUserId, invites, nextMsgId>>
  /\ UNCHANGED wVars
  /\ UNCHANGED feVars

\* `if ws.GetHub().IsOnline(otherID)`
handleGetMessages_IsOnline(r) ==
  /\ ~crashed
  /\ req[r].pc = "online" /\ req[r].kind = "get"
  /\ req' = [req EXCEPT ![r] =
       IF IsOnline(req[r].other) THEN [req[r] EXCEPT !.pc = "lookup"]
       ELSE Respond(req[r], 200, EncodeRows(req[r].rows))]
  /\ UNCHANGED <<hubVars, now, storeVars>>
  /\ UNCHANGED wVars
  /\ UNCHANGED feVars

\* SendMessage(otherID, read_receipt) up to RUnlock.
handleGetMessages_Lookup(r) ==
  /\ ~crashed
  /\ req[r].pc = "lookup" /\ req[r].kind = "get"
  /\ req' = [req EXCEPT ![r] =
       [req[r] EXCEPT !.pc = "enqueue",
                 !.client = Clients[req[r].other],
                 !.frame = <<serializeMessage(
                     Message("read_receipt", req[r].caller, req[r].other, <<>>, <<>>, now,
                             <<[from |-> req[r].caller]>>))>>]]
  /\ UNCHANGED <<hubVars, now, storeVars>>
  /\ UNCHANGED wVars
  /\ UNCHANGED feVars

\* SendMessage after RUnlock, then jsonResponse(w, 200, messages).
handleGetMessages_Enqueue(r) ==
  /\ ~crashed
  /\ req[r].pc = "enqueue" /\ req[r].kind = "get"
  /\ LET out == SendMessage_Enqueue(req[r].client, req[r].frame[1])
     IN /\ send' = out.send
        /\ req' = [req EXCEPT ![r] =
             IF out.panic THEN Respond(req[r], Aborted, <<>>)
             ELSE Respond(req[r], 200, EncodeRows(req[r].rows))]
  /\ UNCHANGED <<Clients, closed, cuser, cpc, clook, cframe, hubPc, hubCur,
                 lastReg, nframes, crashed, lastSeen, now, storeVars>>
  /\ UNCHANGED wVars
  /\ UNCHANGED feVars

\* The handler SetupRoutes and handleMessages select for a request with a
\* token; path is the part after /api, split at the slashes.  ServeMux
\* takes the exact pattern "/api/messages" or the subtree "/api/messages/".
Route(method, path) ==
  IF path # <<>> /\ path[1] = "messages"
  THEN IF method = "GET" THEN "handleGetMessages"
       ELSE IF method = "POST" THEN "handleSendMessage"
       ELSE "methodNotAllowed"
  ELSE IF path = <<"ws">> THEN "handleWebSocket"
  ELSE IF path = <<"invites">> THEN "handleCreateInvite"
  ELSE "other"

\* json.Decode of a request body into the struct of handleSendMessage: a
\* field the body lacks keeps its zero value, other fields are ignored.
DecodeSendBody(body) ==
  [receiver_id |-> IF "receiver_id" \in DOMAIN body THEN body.receiver_id ELSE 0,
   type |-> IF "type" \in DOMAIN body THEN body.type ELSE "",
   content |-> IF "content" \in DOMAIN body THEN body.content ELSE <<>>,
   nonce |-> IF "nonce" \in DOMAIN body THEN body.nonce ELSE <<>>]

\* POST /api/messages/clear {other_user_id} by userID: the path falls under
\* "/api/messages/", so handleSendMessage decodes the body and rejects it
\* for its missing fields.  The slot keeps who asked to clear whom.
handleMessages_Clear(r, userID, otherID) ==
  /\ ~crashed
  /\ Fresh(r)
  /\ Route("POST", <<"messages", "clear">>) = "handleSendMessage"
  /\ LET f == DecodeSendBody([other_user_id |-> otherID])
     IN /\ f.receiver_id = 0 \/ f.content = <<>> \/ f.nonce = <<>>
        /\ req' = [req EXCEPT ![r] =
                     [IdleReq EXCEPT !.pc = "done", !.kind = "clear", !.status = 400,
                                     !.caller = userID, !.other = otherID]]
  /\ UNCHANGED <<hubVars, now, storeVars>>
  /\ UNCHANGED wVars
  /\ UNCHANGED feVars

(***************************************************************************)
(* Registration and invites                                                *)
(***************************************************************************)
\* Codes that rand.Read and hex.EncodeToString can produce.
Codes == {"c1"}

\* Request fields of POST /api/register: username "al", "alice", "bob",
\* "carol"; password "short", "secret1"; public_key "", "!", "YQ==".
NameInputs == {"al", "alice", "bob", "carol"}
PasswordInputs == {"short", "secret1"}
KeyInputs == {<<>>, <<BadChar>>, <<24, 16, Pad, Pad>>}

\* db.ValidateInvite: TRUE iff the SELECT finds an unused row for the code.
ValidateInvite(inv, code) == \E i \in inv : i.code = code /\ i.used_by = 0

\* Variant: the UPDATE lacks `AND used_by IS NULL`.
ValidateAndUseInvite_Overwrite(inv, code, userID) ==
  {IF i.code = code THEN [i EXCEPT !.used_by = userID] ELSE i : i \in inv}

\* The UPDATE of db.ValidateAndUseInvite, which touches unused rows only.
ValidateAndUseInvite(inv, code, userID) ==
  {IF i.code = code /\ i.used_by = 0 THEN [i EXCEPT !.used_by = userID] ELSE i : i \in inv}

\* db.GenerateInviteCode behind POST /api/invites, open to any holder of a
\* token (handleLogin issues one for every row of users): the INSERT fails
\* on a duplicate code or a store fault.
handleCreateInvite(code) ==
  /\ ~crashed
  /\ users # {}
  /\ \E ok \in BOOLEAN :
       IF ok /\ ~(\E i \in invites : i.code = code)
       THEN invites' = invites \cup {[code |-> code, used_by |-> 0]}
       ELSE UNCHANGED invites
  /\ UNCHANGED <<hubVars, now, users, nextUserId, messages, nextMsgId, req>>
  /\ UNCHANGED wVars
  /\ UNCHANGED feVars

\* handleRegister up to SELECT COUNT(*) FROM users.
handleRegister_Count(r, username, password, inviteCode, publicKey) ==
  /\ ~crashed
  /\ Fresh(r)
  /\ LET rq == [req[r] EXCEPT !.kind = "register", !.code = inviteCode]
     IN IF Len(username) < 3 \/ Len(username) > 32 \/ Len(password) < 6 \/ publicKey = <<>>
        THEN req' = [req EXCEPT ![r] = Respond(rq, 400, <<>>)]
        ELSE \E ok \in BOOLEAN :
               IF ok
               THEN req' = [req EXCEPT ![r] =
                              [rq EXCEPT !.pc = "validate", !.name = username,
                                         !.key = publicKey,
                                         !.userCount = Cardinality(users)]]
               ELSE req' = [req EXCEPT ![r] = Respond(rq, 500, <<>>)]
  /\ UNCHANGED <<hubVars, now, storeVars>>
  /\ UNCHANGED wVars
  /\ UNCHANGED feVars

\* The invite check when users exist, then crypto.DecodeKey.
handleRegister_Validate(r) ==
  /\ ~crashed
  /\ req[r].pc = "validate" /\ req[r].kind = "register"
  /\ \E ok \in BOOLEAN :
       IF \/ req[r].userCount > 0 /\ req[r].code = ""
          \/ req[r].userCount > 0 /\ ~(ok /\ ValidateInvite(invites, req[r].code))
          \/ ~DecodeKey(req[r].key).ok
       THEN req' = [req EXCEPT ![r] = Respond(req[r], 400, <<>>)]
       ELSE req' = [req EXCEPT ![r] = [req[r] EXCEPT !.pc = "create", !.key = <<>>]]
  /\ UNCHANGED <<hubVars, now, storeVars>>
  /\ UNCHANGED wVars
  /\ UNCHANGED feVars

\* The INSERT of db.CreateUser: any error is answered 400.
handleRegister_Insert(r) ==
  /\ ~crashed
  /\ req[r].pc = "create" /\ req[r].kind = "register"
  /\ \E ok \in BOOLEAN :
       IF ok /\ ~(\E u \in users : u.username = req[r].name)
       THEN /\ users' = users \cup {[id |-> nextUserId, username |-> req[r].name]}
            /\ nextUserId' = nextUserId + 1
            /\ req' = [req EXCEPT ![r] = [req[r] EXCEPT !.pc = "fetch", !.name = "",
                                                       !.startId = nextUserId]]
       ELSE /\ req' = [req EXCEPT ![r] = Respond(req[r], 400, <<>>)]
            /\ UNCHANGED <<users, nextUserId>>
  /\ UNCHANGED <<hubVars, now, invites, messages, nextMsgId>>
  /\ UNCHANGED wVars
  /\ UNCHANGED feVars

\* db.GetUserByID at the end of db.CreateUser; with no invite code the token
\* and the response follow.
handleRegister_Fetch(r) ==
  /\ ~crashed
  /\ req[r].pc = "fetch" /\ req[r].kind = "register"
  /\ \E ok \in BOOLEAN :
       IF ~ok
       THEN req' = [req EXCEPT ![r] = Respond(req[r], 400, <<>>)]
       ELSE IF req[r].code # ""
       THEN req' = [req EXCEPT ![r] = [req[r] EXCEPT !.pc = "use"]]
       ELSE req' = [req EXCEPT ![r] = Respond(req[r], 200, <<[id |-> req[r].startId]>>)]
  /\ UNCHANGED <<hubVars, now, storeVars>>
  /\ UNCHANGED wVars
  /\ UNCHANGED feVars

\* db.ValidateAndUseInvite, its result dropped, then the token and the
\* response.
handleRegister_UseInvite(r) ==
  /\ ~crashed
  /\ req[r].pc = "use" /\ req[r].kind = "register"
  /\ \E ok \in BOOLEAN :
       invites' = IF ok THEN ValidateAndUseInvite(invites, req[r].code, req[r].startId)
                  ELSE invites
  /\ req' = [req EXCEPT ![r] = Respond(req[r], 200, <<[id |-> req[r].startId]>>)]
  /\ UNCHANGED <<hubVars, now, users, nextUserId, messages, nextMsgId>>
  /\ UNCHANGED wVars
  /\ UNCHANGED feVars

(***************************************************************************)
(* Authentication of the protected routes.  A credential is <<>> when      *)
(* absent, <<t>> for a bare token and <<"Bearer", t>> for a prefixed one;  *)
(* a token t names the user it was issued to and says whether it verifies  *)
(* (signed with the secret and not expired).                               *)
(***************************************************************************)
TokenInputs == [user_id : Users, good : BOOLEAN]

\* <<Authorization header, token query parameter>> of a request: nothing;
\* a good token bare or prefixed in the header; a bad one in the header,
\* alone or with a good one in the query; a good or a bad one in the query.
CredentialInputs ==
  {<<<<>>, <<>>>>}
  \cup {<<<<t>>, <<>>>> : t \in {x \in TokenInputs : x.good /\ x.user_id = 1}}
  \cup {<<<<"Bearer", t>>, <<>>>> : t \in {x \in TokenInputs : x.user_id = 1}}
  \cup {<<<<"Bearer", [user_id |-> 1, good |-> FALSE]>>, <<[user_id |-> 1, good |-> TRUE]>>>>}
  \cup {<<<<>>, <<t>>>> : t \in {x \in TokenInputs : x.user_id = 1}}

Unauthenticated == [ok |-> FALSE, UserID |-> 0, Username |-> ""]

\* auth.ValidateToken: the claims of a token that verifies, else an error.
ValidateToken(t) ==
  IF t.good THEN [ok |-> TRUE, UserID |-> t.user_id, Username |-> Username(t.user_id)]
  ELSE Unauthenticated

\* Variant: the claims are read without verifying the token.
authMiddleware_NoVerify(header, query) ==
  LET tokenString == IF header = <<>> THEN query ELSE header
  IN IF tokenString = <<>> THEN Unauthenticated
     ELSE LET t == tokenString[Len(tokenString)]
          IN [ok |-> TRUE, UserID |-> t.user_id, Username |-> Username(t.user_id)]

\* authMiddleware: the Authorization header, else the `token` query
\* parameter; an optional "Bearer " prefix is removed; the claims go to the
\* handler, a failure is answered 401.
authMiddleware(header, query) ==
  LET tokenString == IF header = <<>> THEN query ELSE header
  IN IF tokenString = <<>> THEN Unauthenticated
     ELSE IF Len(tokenString) > 1 /\ tokenString[1] = "Bearer"
          THEN ValidateToken(Tail(tokenString)[1])
          ELSE ValidateToken(tokenString[1])

\* errorResponse(w, 401, ..) of authMiddleware: the handler is not called.
Unauthorized(r) ==
  /\ ~crashed
  /\ Fresh(r)
  /\ req' = [req EXCEPT ![r] = Respond(IdleReq, 401, <<>>)]
  /\ UNCHANGED <<hubVars, now, storeVars>>
  /\ UNCHANGED wVars
  /\ UNCHANGED feVars

\* GET /api/messages/{otherID}
Protected_GetMessages(r, header, query, otherID) ==
  /\ Route("GET", <<"messages", otherID>>) = "handleGetMessages"
  /\ IF authMiddleware(header, query).ok
     THEN handleGetMessages_Query(r, authMiddleware(header, query).UserID, otherID)
     ELSE Unauthorized(r)

\* POST /api/messages
Protected_SendMessage(r, header, query, receiverID, type, content, nonce) ==
  /\ Route("POST", <<"messages">>) = "handleSendMessage"
  /\ IF authMiddleware(header, query).ok
     THEN handleSendMessage_Save(r, authMiddleware(header, query).UserID,
                                 receiverID, type, content, nonce)
     ELSE Unauthorized(r)

\* GET /api/ws
Protected_WebSocket(r, c, header, query) ==
  /\ Route("GET", <<"ws">>) = "handleWebSocket"
  /\ IF authMiddleware(header, query).ok
     THEN handleWebSocket(c, authMiddleware(header, query).UserID)
     ELSE Unauthorized(r)

\* POST /api/invites
Protected_CreateInvite(r, header, query, code) ==
  /\ Route("POST", <<"invites">>) = "handleCreateInvite"
  /\ IF authMiddleware(header, query).ok
     THEN handleCreateInvite(code)
     ELSE Unauthorized(r)

\* A second passes (CURRENT_TIMESTAMP and time.Now().Unix() have that grain).
Tick ==
  /\ ~crashed
  /\ now < MaxTime
  /\ now' = now + 1
  /\ UNCHANGED <<hubVars, storeVars, req>>
  /\ UNCHANGED wVars
  /\ UNCHANGED feVars

(***************************************************************************)
(* The web client of one user (frontend/src/stores): the message store,    *)
(* the user store and the socket's message handler.  A store update        *)
(* (zustand set) is atomic; the awaits lie between the actions.  A REST    *)
(* call takes the next request slot when it is issued and completes when   *)
(* the client handles the answer.                                          *)
(***************************************************************************)
Me == NumUsers         \* the user the client is logged in as
MyConn == 1            \* the connection of the client's socket at the server
Others == Users \ {Me}
Epoch == 1000          \* Date.now() at second 0, above every row id

\* encoding/json of a time.Time holding whole seconds (RFC 3339, no
\* fraction), and Date.prototype.toISOString (always three fraction digits).
\* A timestamp text is the second it names and its fraction digits, if any.
MarshalTime(t) == [secs |-> t, frac |-> <<>>]
toISOString(ms) == [secs |-> ms \div 1000, frac |-> <<ms % 1000>>]

\* new Date(text).getTime()
DateGetTime(text) ==
  text.secs * 1000 + (IF text.frac = <<>> THEN 0 ELSE text.frac[1])

\* Date.now() at this moment
DateNow == {Epoch + 1000 * now + ms : ms \in 0..MaxMs}

\* A Message of utils/api as the client parses it from a row of a REST body.
RestMessage(row) ==
  [id |-> row.id, sender_id |-> row.sender_id, receiver_id |-> row.receiver_id,
   content |-> row.content, nonce |-> row.nonce,
   timestamp |-> MarshalTime(row.timestamp), read |-> row.read]

\* The msg handleWebSocketMessage builds from a `message` frame: the frame
\* has no id, so the id is Date.now().
WsMessage(message, id) ==
  [id |-> id,
   sender_id |-> message.from,
   receiver_id |-> IF message.to = <<>> THEN Me ELSE message.to[1],
   content |-> IF message.content = <<>> THEN <<>> ELSE message.content[1],
   nonce |-> IF message.nonce = <<>> THEN <<>> ELSE message.nonce[1],
   timestamp |-> toISOString(message.timestamp * 1000),
   read |-> FALSE]

\* Variant: the timestamps are compared as instants.
isSameMessage_ByInstant(a, b) ==
  \/ a.id = b.id
  \/ /\ a.sender_id = b.sender_id /\ a.receiver_id = b.receiver_id
     /\ a.nonce = b.nonce /\ a.content = b.content
     /\ DateGetTime(a.timestamp) = DateGetTime(b.timestamp)

\* isSameMessage: the timestamps are compared as texts.
isSameMessage(a, b) ==
  \/ a.id = b.id
  \/ /\ a.sender_id = b.sender_id /\ a.receiver_id = b.receiver_id
     /\ a.nonce = b.nonce /\ a.content = b.content
     /\ a.timestamp = b.timestamp

\* sortMessagesChronologically: Array.prototype.sort is stable.
RECURSIVE sortMessagesChronologically(_)
sortMessagesChronologically(list) ==
  IF list = <<>> THEN <<>>
  ELSE LET init == sortMessagesChronologically(SubSeq(list, 1, Len(list) - 1))
           last == list[Len(list)]
           p == Cardinality({i \in 1..Len(init) :
                  DateGetTime(init[i].timestamp) <= DateGetTime(last.timestamp)})
       IN SubSeq(init, 1, p) \o <<last>> \o SubSeq(init, p + 1, Len(init))

\* The list after a message is merged into it (sendMessage and addMessage).
MergeMessage(list, message) ==
  IF \E i \in 1..Len(list) : isSameMessage(list[i], message) THEN list
  ELSE sortMessagesChronologically(Append(list, message))

\* useUsersStore.getUserById: the entries of the list with that id.
getUserById(usersList, userId) == {u \in usersList : u.id = userId}

\* Request slots of REST calls the client has issued and not yet completed.
ClientSlots ==
  (({inFlightMessageFetches[o] : o \in Users} \cup {sendCalls[o] : o \in Users}) \ {0})
    \cup usersCalls

\* The slot the next REST call of the client takes.
NextSlot(r) == Fresh(r) /\ r \notin ClientSlots

\* fetchMessages(userId) up to api.getMessages; with a fetch for the user
\* under way it only awaits that one.
fetchMessages(userId) ==
  /\ inFlightMessageFetches[userId] = 0
  /\ \E r \in Reqs :
       /\ NextSlot(r)
       /\ inFlightMessageFetches' = [inFlightMessageFetches EXCEPT ![userId] = r]
  /\ UNCHANGED <<hubVars, now, storeVars, req, wVars, uiMessages, sendCalls,
                 activeChatUserId, received, uiUsers, pendingPresence, usersCalls>>
  /\ UNCHANGED wsVars

\* fetchMessages from the answer of api.getMessages on: the list of the
\* conversation is set to the sorted page, unless the call failed or the user
\* is not in the user list; the fetch is no longer under way.
fetchMessages_Done(userId) ==
  LET r == inFlightMessageFetches[userId]
  IN /\ r # 0
     /\ req[r].pc = "done"
     /\ uiMessages' =
          IF req[r].status = 200 /\ getUserById(uiUsers, userId) # {}
          THEN [uiMessages EXCEPT ![userId] =
                  sortMessagesChronologically(
                    [i \in 1..Len(req[r].body) |-> RestMessage(req[r].body[i])])]
          ELSE uiMessages
     /\ inFlightMessageFetches' = [inFlightMessageFetches EXCEPT ![userId] = 0]
     /\ UNCHANGED <<hubVars, now, storeVars, req, wVars, sendCalls,
                    activeChatUserId, received, uiUsers, pendingPresence, usersCalls>>
     /\ UNCHANGED wsVars

\* sendMessage(receiverId, ..) up to api.sendMessage; it throws when the
\* receiver is not in the user list.
sendMessage(receiverId) ==
  /\ getUserById(uiUsers, receiverId) # {}
  /\ sendCalls[receiverId] = 0
  /\ \E r \in Reqs :
       /\ NextSlot(r)
       /\ sendCalls' = [sendCalls EXCEPT ![receiverId] = r]
  /\ UNCHANGED <<hubVars, now, storeVars, req, wVars, uiMessages,
                 inFlightMessageFetches, activeChatUserId, received, uiUsers,
                 pendingPresence, usersCalls>>
  /\ UNCHANGED wsVars

\* sendMessage from the answer of api.sendMessage on: the message of the
\* answer is merged into the list of the conversation.
sendMessage_Done(receiverId) ==
  LET r == sendCalls[receiverId]
  IN /\ r # 0
     /\ req[r].pc = "done"
     /\ uiMessages' =
          IF req[r].status = 200 /\ req[r].body # <<>>
          THEN [uiMessages EXCEPT ![receiverId] =
                  MergeMessage(@, RestMessage(req[r].body[1]))]
          ELSE uiMessages
     /\ sendCalls' = [sendCalls EXCEPT ![receiverId] = 0]
     /\ UNCHANGED <<hubVars, now, storeVars, req, wVars, inFlightMessageFetches,
                    activeChatUserId, received, uiUsers, pendingPresence, usersCalls>>
     /\ UNCHANGED wsVars

setActiveChatUserId(userId) ==
  /\ activeChatUserId # userId
  /\ activeChatUserId' = userId
  /\ UNCHANGED <<hubVars, now, storeVars, req, wVars, uiMessages,
                 inFlightMessageFetches, sendCalls, received, uiUsers,
                 pendingPresence, usersCalls>>
  /\ UNCHANGED wsVars

\* _pendingPresence.set(userId, online)
MapSet(map, key, value) ==
  [k \in DOMAIN map \cup {key} |-> IF k = key THEN value ELSE map[k]]

\* updateUserStatus: <<users, _pendingPresence>> after it.
updateUserStatus(usersList, pending, userId, online) ==
  IF getUserById(usersList, userId) = {}
  THEN <<usersList, MapSet(pending, userId, online)>>
  ELSE <<{IF u.id = userId THEN [u EXCEPT !.online = online] ELSE u : u \in usersList},
         pending>>

\* socket.onmessage with handleWebSocketMessage, for the next frame of the
\* socket.  A `message` frame goes to addMessage: the msg is merged into the
\* list of its conversation and, when it comes from the user of the open
\* chat, fetchMessages is called.  A `presence` frame goes to
\* updateUserStatus.  Every other frame leaves the two stores as they are
\* (the read_receipt case calls markMessagesAsRead, which the message store
\* does not have; the TypeError is caught by onmessage).
socket_onmessage ==
  /\ received < Len(wire[MyConn])
  /\ received' = received + 1
  /\ LET message == wire[MyConn][received + 1]
     IN IF message.type = "message"
        THEN \E id \in DateNow :
               LET msg == WsMessage(message, id)
                   otherUserId == IF msg.sender_id = Me THEN msg.receiver_id
                                  ELSE msg.sender_id
               IN /\ uiMessages' = [uiMessages EXCEPT ![otherUserId] = MergeMessage(@, msg)]
                  /\ IF /\ msg.sender_id # Me
                        /\ activeChatUserId = otherUserId
                        /\ inFlightMessageFetches[otherUserId] = 0
                     THEN \E r \in Reqs :
                            /\ NextSlot(r)
                            /\ inFlightMessageFetches' =
                                 [inFlightMessageFetches EXCEPT ![otherUserId] = r]
                     ELSE UNCHANGED inFlightMessageFetches
                  /\ UNCHANGED <<uiUsers, pendingPresence>>
        ELSE IF message.type = "presence"
        THEN /\ uiUsers' = updateUserStatus(uiUsers, pendingPresence,
                               message.data[1].user_id, message.data[1].online)[1]
             /\ pendingPresence' = updateUserStatus(uiUsers, pendingPresence,
                               message.data[1].user_id, message.data[1].online)[2]
             /\ UNCHANGED <<uiMessages, inFlightMessageFetches>>
        ELSE UNCHANGED <<uiMessages, inFlightMessageFetches, uiUsers, pendingPresence>>
  /\ UNCHANGED <<hubVars, now, storeVars, req, wVars, sendCalls,
                 activeChatUserId, usersCalls>>
  /\ UNCHANGED wsVars

\* fetchUsers up to api.getUsers; nothing keeps a second call from being
\* under way at the same time.
fetchUsers ==
  /\ \E r \in Reqs :
       /\ NextSlot(r)
       /\ usersCalls' = usersCalls \cup {r}
  /\ UNCHANGED <<hubVars, now, storeVars, req, wVars, uiMessages,
                 inFlightMessageFetches, sendCalls, activeChatUserId, received,
                 uiUsers, pendingPresence>>
  /\ UNCHANGED wsVars

\* fetchUsers from the answer of api.getUsers on: the current user is
\* filtered out; with a non-empty queue the queued values are put on the
\* users of the answer and the queue is cleared; the list is set.  A failed
\* call leaves list and queue as they are.
fetchUsers_Done(r) ==
  /\ r \in usersCalls
  /\ req[r].pc = "done"
  /\ usersCalls' = usersCalls \ {r}
  /\ IF req[r].status = 200
     THEN LET filteredUsers ==
                {[id |-> req[r].body[i].id, online |-> req[r].body[i].online] :
                   i \in {j \in 1..Len(req[r].body) : req[r].body[j].id # Me}}
          IN /\ uiUsers' =
                  {IF u.id \in DOMAIN pendingPresence
                   THEN [u EXCEPT !.online = pendingPresence[u.id]] ELSE u :
                     u \in filteredUsers}
             /\ pendingPresence' = <<>>
     ELSE UNCHANGED <<uiUsers, pendingPresence>>
  /\ UNCHANGED <<hubVars, now, storeVars, req, wVars, uiMessages,
                 inFlightMessageFetches, sendCalls, activeChatUserId, received>>
  /\ UNCHANGED wsVars

(***************************************************************************)
(* The client's socket store (websocketStore.ts).  A WebSocket is named by *)
(* the order of its creation.  The browser runs one task at a time: a call *)
(* of connect or disconnect, a timeout's callback, or the task of a socket *)
(* that sets its readyState and fires the event at the handler then set.   *)
(* A timeout is named by the socket whose close set it; a cleared timeout  *)
(* never runs.  The client holds a token throughout.                       *)
(***************************************************************************)
\* Variant: the variable is reset, the timeout is not cleared.
clearReconnectTimer_Forget(timer, active) == <<0, active>>

\* clearReconnectTimer: <<reconnectTimer, the timeouts still set>> after it.
clearReconnectTimer(timer, active) == <<0, active \ {timer}>>

\* closeSocket(socket): <<readyState, handlers>> after the handlers are
\* removed and socket.close() is called.
closeSocket(socket, states, set) ==
  <<[states EXCEPT ![socket] = IF @ \in {"CONNECTING", "OPEN"} THEN "CLOSING" ELSE @],
    [set EXCEPT ![socket] = FALSE]>>

\* The body of connect(), entered with reconnectTimer = timer and the
\* timeouts of `active` set.
connectFrom(timer, active) ==
  /\ manualDisconnect' = FALSE
  /\ reconnectTimer' = clearReconnectTimer(timer, active)[1]
  /\ timers' = clearReconnectTimer(timer, active)[2]
  /\ IF currentSocket # 0 /\ readyState[currentSocket] \in {"OPEN", "CONNECTING"}
     THEN UNCHANGED <<currentSocket, readyState, handlers, stateSocket>>
     ELSE \E socket \in Sockets :
            /\ readyState[socket] = "NONE"
            /\ \A s \in Sockets : s < socket => readyState[s] # "NONE"
            /\ LET old == IF currentSocket = 0 THEN <<readyState, handlers>>
                          ELSE closeSocket(currentSocket, readyState, handlers)
               IN /\ readyState' = [old[1] EXCEPT ![socket] = "CONNECTING"]
                  /\ handlers' = [old[2] EXCEPT ![socket] = TRUE]
            /\ currentSocket' = socket
            /\ stateSocket' = socket
  /\ UNCHANGED <<isConnected, fired>>
  /\ UNCHANGED <<hubVars, now, storeVars, req, wVars, uiMessages,
                 inFlightMessageFetches, sendCalls, activeChatUserId, received,
                 uiUsers, pendingPresence, usersCalls>>

\* connect(), called by the page.
connect ==
  /\ connectFrom(reconnectTimer, timers)
  /\ UNCHANGED reconnectAttempts

\* The callback of the timeout scheduleReconnect has set.
reconnectTimer_Fires(t) ==
  /\ t \in timers
  /\ reconnectAttempts' = reconnectAttempts + 1
  /\ connectFrom(0, timers \ {t})

\* disconnect()
disconnect ==
  /\ manualDisconnect' = TRUE
  /\ reconnectTimer' = clearReconnectTimer(reconnectTimer, timers)[1]
  /\ timers' = clearReconnectTimer(reconnectTimer, timers)[2]
  /\ IF currentSocket # 0
     THEN /\ readyState' = closeSocket(currentSocket, readyState, handlers)[1]
          /\ handlers' = closeSocket(currentSocket, readyState, handlers)[2]
     ELSE UNCHANGED <<readyState, handlers>>
  /\ currentSocket' = 0
  /\ stateSocket' = 0
  /\ isConnected' = FALSE
  /\ UNCHANGED <<fired, reconnectAttempts>>
  /\ UNCHANGED <<hubVars, now, storeVars, req, wVars, uiMessages,
                 inFlightMessageFetches, sendCalls, activeChatUserId, received,
                 uiUsers, pendingPresence, usersCalls>>

\* The connection of a socket is established: readyState OPEN, then
\* socket.onopen.
WebSocket_open(socket) ==
  /\ readyState[socket] = "CONNECTING"
  /\ readyState' = [readyState EXCEPT ![socket] = "OPEN"]
  /\ IF handlers[socket] /\ currentSocket = socket
     THEN /\ reconnectAttempts' = 0
          /\ isConnected' = TRUE
          /\ stateSocket' = socket
     ELSE UNCHANGED <<reconnectAttempts, isConnected, stateSocket>>
  /\ UNCHANGED <<currentSocket, handlers, fired, reconnectTimer, timers, manualDisconnect>>
  /\ UNCHANGED <<hubVars, now, storeVars, req, wVars, uiMessages,
                 inFlightMessageFetches, sendCalls, activeChatUserId, received,
                 uiUsers, pendingPresence, usersCalls>>

\* The connection of a socket is closed or has failed: readyState CLOSED,
\* then socket.onclose, with scheduleReconnect at its end.
WebSocket_close(socket) ==
  /\ readyState[socket] \in {"CONNECTING", "OPEN", "CLOSING"}
  /\ readyState' = [readyState EXCEPT ![socket] = "CLOSED"]
  /\ IF handlers[socket] /\ currentSocket = socket
     THEN /\ currentSocket' = 0
          /\ isConnected' = FALSE
          /\ stateSocket' = 0
          /\ IF manualDisconnect
             THEN UNCHANGED <<reconnectTimer, timers>>
             ELSE /\ reconnectTimer' = socket
                  /\ timers' = clearReconnectTimer(reconnectTimer, timers)[2] \cup {socket}
     ELSE UNCHANGED <<currentSocket, isConnected, stateSocket, reconnectTimer, timers>>
  /\ UNCHANGED <<handlers, fired, reconnectAttempts, manualDisconnect>>
  /\ UNCHANGED <<hubVars, now, storeVars, req, wVars, uiMessages,
                 inFlightMessageFetches, sendCalls, activeChatUserId, received,
                 uiUsers, pendingPresence, usersCalls>>

\* Frames a socket of the client can receive: presence of any user.
SocketFrames ==
  {serializeMessage(Message("presence", 0, 0, <<>>, <<>>, 0,
                            Presence(u, Username(u), online))) :
     u \in Users, online \in BOOLEAN}

\* A frame arrives at an open socket: the message event, then
\* socket.onmessage with handleWebSocketMessage (case 'presence').
WebSocket_message(socket, message) ==
  /\ readyState[socket] = "OPEN"
  /\ fired[socket] < MaxFired
  /\ fired' = [fired EXCEPT ![socket] = @ + 1]
  /\ IF handlers[socket] /\ message.type = "presence"
     THEN /\ uiUsers' = updateUserStatus(uiUsers, pendingPresence,
                            message.data[1].user_id, message.data[1].online)[1]
          /\ pendingPresence' = updateUserStatus(uiUsers, pendingPresence,
                            message.data[1].user_id, message.data[1].online)[2]
     ELSE UNCHANGED <<uiUsers, pendingPresence>>
  /\ UNCHANGED <<currentSocket, readyState, handlers, reconnectTimer, timers,
                 reconnectAttempts, manualDisconnect, isConnected, stateSocket>>
  /\ UNCHANGED <<hubVars, now, storeVars, req, wVars, uiMessages,
                 inFlightMessageFetches, sendCalls, activeChatUserId, received,
                 usersCalls>>

\* The message store when the page has loaded: nothing fetched or received.
MessagesInit ==
  /\ uiMessages = [o \in Users |-> <<>>]
  /\ inFlightMessageFetches = [o \in Users |-> 0]
  /\ sendCalls = [o \in Users |-> 0]
  /\ activeChatUserId = 0
  /\ received = 0

\* The user store before fetchUsers has succeeded, and once it has.
UsersEmpty == uiUsers = {} /\ pendingPresence = <<>> /\ usersCalls = {}
UsersLoaded ==
  /\ uiUsers = {[id |-> u, online |-> FALSE] : u \in Others}
  /\ pendingPresence = <<>>
  /\ usersCalls = {}

\* websocketStore.ts when the module is loaded: no socket, no timer.
SocketInit ==
  /\ currentSocket = 0
  /\ readyState = [s \in Sockets |-> "NONE"]
  /\ handlers = [s \in Sockets |-> FALSE]
  /\ fired = [s \in Sockets |-> 0]
  /\ reconnectTimer = 0
  /\ timers = {}
  /\ reconnectAttempts = 0
  /\ manualDisconnect = FALSE
  /\ isConnected = FALSE
  /\ stateSocket = 0

\* websocketStore.ts once the first socket is open.
SocketOpen ==
  /\ currentSocket = 1
  /\ readyState = [s \in Sockets |-> IF s = 1 THEN "OPEN" ELSE "NONE"]
  /\ handlers = [s \in Sockets |-> s = 1]
  /\ fired = [s \in Sockets |-> 0]
  /\ reconnectTimer = 0
  /\ timers = {}
  /\ reconnectAttempts = 0
  /\ manualDisconnect = FALSE
  /\ isConnected = TRUE
  /\ stateSocket = 1

\* The client when the page has loaded.
ClientInit == MessagesInit /\ UsersEmpty /\ SocketInit

\* The client once fetchUsers has loaded the other users and the socket is
\* open.
ClientLoaded == MessagesInit /\ UsersLoaded /\ SocketOpen

(***************************************************************************)
(* The hub and its connections                                             *)
(***************************************************************************)
Lifecycle(C) ==
  \/ \E c \in C, u \in Users : handleWebSocket(c, u)
  \/ \E c \in Conns : ReadPump_Start(c)
  \/ \E c \in Conns : ReadPump_Error(c)
  \/ \E c \in Conns : handleEvents_RecvRegister(c)
  \/ handleEvents_Register
  \/ handleEvents_RegisterNotify
  \/ \E c \in Conns : handleEvents_RecvUnregister(c)
  \/ handleEvents_Unregister
  \/ handleEvents_UnregisterNotify

\* The store once every holder of a token has registered.
StoreInit ==
  /\ users = {[id |-> u, username |-> Username(u)] : u \in Users}
  /\ nextUserId = NumUsers + 1
  /\ invites = {}
  /\ messages = {}
  /\ nextMsgId = 1
  /\ req = [r \in Reqs |-> IdleReq]

Init == HubInit /\ StoreInit /\ now = 0 /\ ClientInit

\* Connections coming and going, no traffic.
Next == Lifecycle(Conns)
Spec == Init /\ [][Next]_vars

\* Connections coming and going while readers forward inbound frames.
\* The event loop's enqueues of this step all find room: the initial view fits
\* into the new connection's queue, a broadcast finds no full queue.
NoDropStep ==
  /\ hubPc = "register"
       => Cardinality({v \in Users : v # cuser[hubCur] /\ Clients[v] # NoClient})
            + Len(send[hubCur]) <= SendCap
  /\ hubPc \in {"registerNotify", "unregisterNotify"}
       => \A u \in Users : Clients[u] # NoClient => Len(send[Clients[u]]) < SendCap

\* Connections come and go and no presence frame is ever dropped.
NextNoDrop ==
  \/ \E c \in Conns, u \in Users : handleWebSocket(c, u)
  \/ \E c \in Conns : ReadPump_Start(c)
  \/ \E c \in Conns : ReadPump_Error(c)
  \/ \E c \in Conns : handleEvents_RecvRegister(c)
  \/ NoDropStep /\ handleEvents_Register
  \/ NoDropStep /\ handleEvents_RegisterNotify
  \/ \E c \in Conns : handleEvents_RecvUnregister(c)
  \/ handleEvents_Unregister
  \/ NoDropStep /\ handleEvents_UnregisterNotify
SpecNoDrop == Init /\ [][NextNoDrop]_vars

\* The writer of every connection, and peers going away.
Writers ==
  \/ \E c \in Conns : WritePump_Start(c)
  \/ \E c \in Conns : WritePump_Recv(c)
  \/ \E c \in Conns : WritePump_Ping(c)
  \/ \E c \in Conns : PeerGone(c)

\* Connections coming and going with their writers running, while readers
\* forward inbound frames.
NextWrite ==
  \/ Lifecycle(1..WriteConns)
  \/ Writers
  \/ \E c \in Conns, type \in WsTypes, to \in Users : handleMessage_Lookup(c, type, to)
  \/ \E c \in Conns : handleMessage_Enqueue(c)
SpecWrite == Init /\ [][NextWrite]_vars

\* Scheduling: a goroutine that can take its next step takes it (the event
\* loop inside a branch, a pump that was started, a SendMessage under way,
\* the writer's ticker), a rendezvous on Register or unregister completes
\* once the event loop is back at its select, and a read on a dead socket
\* fails.  Peers are not obliged to connect, to send frames or to go away.
Fairness ==
  /\ WF_vars(handleEvents_Register)
  /\ WF_vars(handleEvents_RegisterNotify)
  /\ WF_vars(handleEvents_Unregister)
  /\ WF_vars(handleEvents_UnregisterNotify)
  /\ \A c \in Conns :
       /\ WF_vars(handleEvents_RecvRegister(c))
       /\ WF_vars(handleEvents_RecvUnregister(c))
       /\ WF_vars(ReadPump_Start(c))
       /\ WF_vars(ReadPump_ErrorDead(c))
       /\ WF_vars(handleMessage_Enqueue(c))
       /\ WF_vars(WritePump_Start(c))
       /\ WF_vars(WritePump_Recv(c))
       /\ WF_vars(WritePump_Ping(c))

\* Fair runs of connections coming and going with their writers running.
NextDrain ==
  \/ Lifecycle(1..DrainConns)
  \/ Writers
SpecDrainFair == Init /\ [][NextDrain]_vars /\ Fairness

NextSend ==
  \/ Lifecycle(1..SendConns)
  \/ \E c \in Conns, type \in WsTypes, to \in Users : handleMessage_Lookup(c, type, to)
  \/ \E c \in Conns : handleMessage_Enqueue(c)
  \/ \E c \in Conns, f \in FrameInputs : ReadPump_Skip(c, f)
SpecSend == Init /\ [][NextSend]_vars

\* Fair runs of connections coming and going, without and with readers
\* forwarding frames.
SpecFair == Spec /\ Fairness
SpecSendFair == SpecSend /\ Fairness

PostMessage(R) ==
  \/ \E r \in R, s \in Users, t \in {0} \cup Users, ty \in TypeInputs,
        c \in TextInputs, n \in NonceInputs : handleSendMessage_Save(r, s, t, ty, c, n)
  \/ \E r \in Reqs : handleSendMessage_Fetch(r)
  \/ \E r \in Reqs : handleSendMessage_IsOnline(r)
  \/ \E r \in Reqs : handleSendMessage_Lookup(r)
  \/ \E r \in Reqs : handleSendMessage_Enqueue(r)

GetMessages(R) ==
  \/ \E r \in R, u \in Users, o \in {0} \cup Users : handleGetMessages_Query(r, u, o)
  \/ \E r \in Reqs : handleGetMessages_Mark(r)
  \/ \E r \in Reqs : handleGetMessages_IsOnline(r)
  \/ \E r \in Reqs : handleGetMessages_Lookup(r)
  \/ \E r \in Reqs : handleGetMessages_Enqueue(r)

\* Messages posted while connections come and go.
NextMsg ==
  \/ Lifecycle(1..MsgConns)
  \/ PostMessage(1..MsgReqs)
SpecMsg == Init /\ [][NextMsg]_vars

\* Conversations opened while connections come and go.
NextGet ==
  \/ Lifecycle(1..MsgConns)
  \/ GetMessages(1..MsgReqs)
SpecGet == Init /\ [][NextGet]_vars

\* Frames forwarded, messages posted and conversations opened while
\* connections come and go.
NextFrom ==
  \/ Lifecycle(1..FromConns)
  \/ /\ nframes < FromFrames
     /\ \E c \in Conns, type \in WsTypes, to \in Users : handleMessage_Lookup(c, type, to)
  \/ \E c \in Conns : handleMessage_Enqueue(c)
  \/ PostMessage(1..FromReqs)
  \/ GetMessages(1..FromReqs)
SpecFrom == Init /\ [][NextFrom]_vars

\* A call of db.GetMessagesBetween(a, b, limit, 0) on its own: the page or
\* the error it returns is kept in slot r.
GetMessagesBetween_Call(r, a, b, limit) ==
  /\ ~crashed
  /\ Fresh(r)
  /\ LET rq == [IdleReq EXCEPT !.kind = "page", !.caller = a, !.other = b]
     IN \E ok \in BOOLEAN :
          IF ok
          THEN \E res \in GetMessagesBetween(messages, a, b, limit) :
                 req' = [req EXCEPT ![r] = [rq EXCEPT !.pc = "done", !.status = 200,
                                                     !.rows = res]]
          ELSE req' = [req EXCEPT ![r] = Respond(rq, 500, <<>>)]
  /\ UNCHANGED <<hubVars, now, storeVars>>
  /\ UNCHANGED wVars
  /\ UNCHANGED feVars

\* Contents of table messages after up to MaxRows inserts by db.SaveMessage:
\* ids count from 1 and timestamps follow the clock.
StoreContents ==
  UNION {{ {[id |-> i, sender_id |-> f[i][1], receiver_id |-> f[i][2],
             type |-> "text", content |-> <<97>>, nonce |-> <<110>>,
             timestamp |-> f[i][3], read |-> FALSE] : i \in 1..n} :
           f \in {g \in [1..n -> Users \X Users \X (0..MaxTime)] :
                    \A i, j \in 1..n : i < j => g[i][3] <= g[j][3]} } :
         n \in 0..MaxRows}

\* Pages queried from a store that already holds messages.
InitPage ==
  /\ HubInit
  /\ users = {[id |-> u, username |-> Username(u)] : u \in Users}
  /\ nextUserId = NumUsers + 1
  /\ invites = {}
  /\ messages \in StoreContents
  /\ nextMsgId = Cardinality(messages) + 1
  /\ now = MaxTime
  /\ req = [r \in Reqs |-> IdleReq]
  /\ ClientInit
NextPage ==
  \E a, b \in Users, limit \in 1..MaxPage : GetMessagesBetween_Call(1, a, b, limit)
SpecPage == InitPage /\ [][NextPage]_vars

\* The hub once the last user has opened a socket and its reader runs.
HubConnected ==
  /\ Clients = [u \in Users |-> IF u = NumUsers THEN 1 ELSE NoClient]
  /\ send = [c \in Conns |-> IF c = 1
                THEN <<serializeMessage(Message("presence", 0, 0, <<>>, <<>>, 0,
                          Presence(NumUsers, Username(NumUsers), TRUE)))>>
                ELSE <<>>]
  /\ closed = [c \in Conns |-> FALSE]
  /\ cuser = [c \in Conns |-> IF c = 1 THEN NumUsers ELSE NoClient]
  /\ cpc = [c \in Conns |-> IF c = 1 THEN "reading" ELSE "none"]
  /\ clook = [c \in Conns |-> NoClient]
  /\ cframe = [c \in Conns |-> NoFrame]
  /\ hubPc = "idle"
  /\ hubCur = 1
  /\ lastReg = [u \in Users |-> IF u = NumUsers THEN 1 ELSE NoClient]
  /\ nframes = 0
  /\ crashed = FALSE
  /\ lastSeen = [u \in Users |-> 0]
  /\ wpc = [c \in Conns |-> "none"]
  /\ sock = [c \in Conns |-> "open"]
  /\ wire = [c \in Conns |-> <<>>]

\* Messages posted and read over time, connections unchanged.
InitStore == HubConnected /\ StoreInit /\ now = 0 /\ ClientInit
NextStore ==
  \/ PostMessage(Reqs)
  \/ GetMessages(Reqs)
  \/ Tick
SpecStore == InitStore /\ [][NextStore]_vars

\* The client of the connected user sends, fetches and receives while the
\* other users post messages to it.
InitClient == HubConnected /\ StoreInit /\ now = 0 /\ ClientLoaded
NextClient ==
  \/ \E o \in Others : fetchMessages(o)
  \/ \E o \in Others : /\ inFlightMessageFetches[o] # 0
                       /\ handleGetMessages_Query(inFlightMessageFetches[o], Me, o)
  \/ \E r \in Reqs : handleGetMessages_Mark(r)
  \/ \E r \in Reqs : handleGetMessages_IsOnline(r)
  \/ \E o \in Others : fetchMessages_Done(o)
  \/ \E o \in Others : sendMessage(o)
  \/ \E o \in Others : /\ sendCalls[o] # 0
                       /\ handleSendMessage_Save(sendCalls[o], Me, o, "",
                                                 <<24, 16, Pad, Pad>>, <<27, 32, Pad, Pad>>)
  \/ \E r \in Reqs, s \in Others :
       /\ r \notin ClientSlots
       /\ handleSendMessage_Save(r, s, Me, "", <<24, 16, Pad, Pad>>, <<27, 32, Pad, Pad>>)
  \/ \E r \in Reqs : handleSendMessage_Fetch(r)
  \/ \E r \in Reqs : handleSendMessage_IsOnline(r)
  \/ \E r \in Reqs : handleSendMessage_Lookup(r)
  \/ \E r \in Reqs : handleSendMessage_Enqueue(r)
  \/ \E o \in Others : sendMessage_Done(o)
  \/ WritePump_Start(MyConn)
  \/ WritePump_Recv(MyConn)
  \/ socket_onmessage
  \/ \E o \in {0} \cup Others : setActiveChatUserId(o)
  \/ Tick
SpecClient == InitClient /\ [][NextClient]_vars

\* The client loads and reloads the user list while the other users connect
\* and disconnect and presence frames reach its socket.  The first
\* fetchUsers has succeeded or failed before the socket was opened.
InitUsers ==
  /\ HubConnected /\ StoreInit /\ now = 0
  /\ MessagesInit /\ (UsersEmpty \/ UsersLoaded) /\ SocketOpen
NextUsers ==
  \/ req[UsersReqs].pc = "idle" /\ fetchUsers
  \/ \E r \in usersCalls : handleGetUsers_Query(r)
  \/ \E r \in Reqs : handleGetUsers_IsOnline(r)
  \/ \E r \in Reqs : fetchUsers_Done(r)
  \/ Lifecycle(2..UsersConns)
  \/ WritePump_Start(MyConn)
  \/ WritePump_Recv(MyConn)
  \/ socket_onmessage
SpecUsers == InitUsers /\ [][NextUsers]_vars

\* The page connects and disconnects while sockets open, close and receive
\* and reconnect timeouts run.  The user list was loaded before connect().
InitSocket ==
  /\ HubInit /\ StoreInit /\ now = 0
  /\ MessagesInit /\ UsersLoaded /\ SocketInit
NextSocket ==
  \/ connect
  \/ disconnect
  \/ \E t \in Sockets : reconnectTimer_Fires(t)
  \/ \E s \in Sockets : WebSocket_open(s)
  \/ \E s \in Sockets : WebSocket_close(s)
  \/ \E s \in Sockets, message \in SocketFrames : WebSocket_message(s, message)
SpecSocket == InitSocket /\ [][NextSocket]_vars

\* Messages posted and conversations opened over time, with a page that
\* holds every conversation of the run.
NextRead ==
  \/ PostMessage(Reqs)
  \/ \E r \in Reqs, u \in Users, o \in Users : handleGetMessages_QueryPage(r, u, o, WideLimit)
  \/ \E r \in Reqs : handleGetMessages_Mark(r)
  \/ \E r \in Reqs : handleGetMessages_IsOnline(r)
  \/ \E r \in Reqs : handleGetMessages_Lookup(r)
  \/ \E r \in Reqs : handleGetMessages_Enqueue(r)
  \/ Tick
SpecRead == InitStore /\ [][NextRead]_vars

\* A fresh database: the first registration needs no invite.
RegInit ==
  /\ users = {}
  /\ nextUserId = 1
  /\ invites = {}
  /\ messages = {}
  /\ nextMsgId = 1
  /\ req = [r \in Reqs |-> IdleReq]

Register(R) ==
  \/ \E r \in R, n \in NameInputs, p \in PasswordInputs, c \in {""} \cup Codes,
        k \in KeyInputs : handleRegister_Count(r, n, p, c, k)
  \/ \E r \in Reqs : handleRegister_Validate(r)
  \/ \E r \in Reqs : handleRegister_Insert(r)
  \/ \E r \in Reqs : handleRegister_Fetch(r)
  \/ \E r \in Reqs : handleRegister_UseInvite(r)

\* Accounts and invites being created, nobody connected.
InitReg == HubInit /\ RegInit /\ now = 0 /\ ClientInit
NextReg ==
  \/ Register(Reqs)
  \/ \E c \in Codes : handleCreateInvite(c)
SpecReg == InitReg /\ [][NextReg]_vars

\* Messages posted and conversations cleared, connections unchanged.
NextClear ==
  \/ PostMessage(1..ClearReqs)
  \/ \E r \in 1..ClearReqs, a, b \in Users : handleMessages_Clear(r, a, b)
SpecClear == InitStore /\ [][NextClear]_vars

\* Requests arriving at the protected routes with any credentials.
NextAuth ==
  \/ \E r \in 1..AuthReqs, k \in CredentialInputs, o \in Users :
       Protected_GetMessages(r, k[1], k[2], o)
  \/ \E r \in 1..AuthReqs, k \in CredentialInputs, t \in Users :
       Protected_SendMessage(r, k[1], k[2], t, "", <<24, 16, Pad, Pad>>, <<27, 32, Pad, Pad>>)
  \/ \E r \in 1..AuthReqs, c \in 1..AuthConns, k \in CredentialInputs :
       Protected_WebSocket(r, c, k[1], k[2])
  \/ \E r \in 1..AuthReqs, k \in CredentialInputs, c \in Codes :
       Protected_CreateInvite(r, k[1], k[2], c)
  \/ \E r \in Reqs : handleSendMessage_Fetch(r)
  \/ \E r \in Reqs : handleSendMessage_IsOnline(r)
  \/ \E r \in Reqs : handleSendMessage_Lookup(r)
  \/ \E r \in Reqs : handleSendMessage_Enqueue(r)
  \/ \E r \in Reqs : handleGetMessages_Mark(r)
  \/ \E r \in Reqs : handleGetMessages_IsOnline(r)
  \/ \E r \in Reqs : handleGetMessages_Lookup(r)
  \/ \E r \in Reqs : handleGetMessages_Enqueue(r)
  \/ \E c \in Conns : ReadPump_Start(c)
  \/ \E c \in Conns : ReadPump_Error(c)
  \/ \E c \in Conns : handleEvents_RecvRegister(c)
  \/ handleEvents_Register
  \/ handleEvents_RegisterNotify
  \/ \E c \in Conns : handleEvents_RecvUnregister(c)
  \/ handleEvents_Unregister
  \/ handleEvents_UnregisterNotify
SpecAuth == Init /\ [][NextAuth]_vars

(***************************************************************************)
(* Properties of the hub                                                   *)
(***************************************************************************)
IsPresence(f, u, online) ==
  /\ f.type = "presence"
  /\ f.data[1].user_id = u
  /\ f.data[1].online = online

\* Number of presence{user_id = u, online = false} frames buffered for c.
OfflineCount(snd, c, u) ==
  Cardinality({i \in 1..Len(snd[c]) : IsPresence(snd[c][i], u, FALSE)})

Registered(c) == \E u \in Users : Clients[u] = c

ReaderEnded(c) == cpc[c] \in {"unregister", "done"}

\* No Register or Unregister event is pending or being processed.
Quiescent ==
  /\ hubPc = "idle"
  /\ \A c \in Conns : cpc[c] \notin {"register", "unregister"}

\* C2 -- Reconnect safety.  When the event loop processes Register(c2) while
\* c1 is the entry of the same user, c1's send queue is closed and the entry
\* becomes c2 in that step; and a presence{online=false} frame about a user is
\* only ever enqueued by the unregister of the connection most recently
\* registered for that user, so neither the reconnect nor the later
\* unregister of the evicted c1 enqueues one.
C2_ReconnectSafety ==
  [][ /\ (hubPc = "register" /\ hubPc' # "register"
            /\ Clients[cuser[hubCur]] # NoClient)
        => /\ closed'[Clients[cuser[hubCur]]]
           /\ Clients'[cuser[hubCur]] = hubCur
      /\ \A c \in Conns, u \in Users :
           OfflineCount(send', c, u) > OfflineCount(send, c, u)
             => /\ hubPc = "unregisterNotify"
                /\ cuser[hubCur] = u
                /\ lastReg[u] = hubCur
    ]_vars

\* C2 witness: the unregister of an evicted connection has been processed
\* while its successor is registered and another user is connected to observe.
C2_Witness ==
  \E c \in Conns :
    /\ hubPc = "idle" /\ hubCur = c /\ cpc[c] = "done" /\ closed[c]
    /\ Clients[cuser[c]] \notin {NoClient, c}
    /\ \E v \in Users : v # cuser[c] /\ Clients[v] # NoClient
                          /\ Len(send[Clients[v]]) < SendCap

\* C3 -- An Unregister(c) processed while the map entry of c's user is not c
\* changes neither the Clients map nor any send queue nor any closed flag and
\* is followed by no presence broadcast.
C3_StaleUnregisterNoOp ==
  [][ (hubPc = "unregister" /\ hubPc' # "unregister"
         /\ Clients[cuser[hubCur]] # hubCur)
        => /\ Clients' = Clients
           /\ send' = send
           /\ closed' = closed
           /\ hubPc' = "idle"
    ]_vars

\* C3 witness: a stale unregister was processed while the user had no entry
\* (the connection was evicted and its successor has unregistered since).
C3_Witness ==
  \E c \in Conns :
    /\ hubPc = "idle" /\ hubCur = c /\ cpc[c] = "done" /\ closed[c]
    /\ Clients[cuser[c]] = NoClient
    /\ lastReg[cuser[c]] # c

C5_MatchingUnregister ==
  [][ /\ (hubPc = "unregister" /\ hubPc' # "unregister"
            /\ Clients[cuser[hubCur]] = hubCur)
        => /\ Clients'[cuser[hubCur]] = NoClient
           /\ closed'[hubCur]
           /\ hubPc' = "unregisterNotify"
      /\ (hubPc = "unregisterNotify" /\ hubPc' # "unregisterNotify")
        => /\ hubPc' = "idle"
           /\ Clients'[cuser[hubCur]] = NoClient
           /\ closed'[hubCur]
           /\ \A c \in Conns :
                (Registered(c) /\ Len(send[c]) < SendCap)
                  => /\ Len(send'[c]) = Len(send[c]) + 1
                     /\ SubSeq(send'[c], 1, Len(send[c])) = send[c]
                     /\ IsPresence(send'[c][Len(send'[c])], cuser[hubCur], FALSE)
    ]_vars

\* C5 witness: a matching unregister has completed and two remaining
\* connections hold the offline frame.
C5_Witness ==
  /\ hubPc = "idle" /\ hubCur # NoClient /\ cpc[hubCur] = "done"
  /\ lastReg[cuser[hubCur]] = hubCur
  /\ Clients[cuser[hubCur]] = NoClient
  /\ \E c \in Conns :
       /\ Registered(c) /\ send[c] # <<>>
       /\ IsPresence(send[c][Len(send[c])], cuser[hubCur], FALSE)

\* C6 -- Once every pending Register/Unregister has been processed, a user is
\* online exactly when the connection most recently registered for it has a
\* reader that has not terminated.
C6_PresenceInSync ==
  Quiescent =>
    \A u \in Users :
      IsOnline(u) <=> (lastReg[u] # NoClient /\ ~ReaderEnded(lastReg[u]))

\* C6 witness: quiescent, a user reconnected and both its sockets are dead.
C6_Witness ==
  /\ Quiescent
  /\ \E u \in Users, c, d \in Conns :
       /\ c # d /\ cuser[c] = u /\ cuser[d] = u
       /\ cpc[c] = "done" /\ cpc[d] = "done"
       /\ lastReg[u] = d
       /\ ~IsOnline(u)
       /\ \E v \in Users : v # u /\ IsOnline(v)

\* C7 -- SendMessage(to, envelope) completes; if no connection was found for
\* `to` or its queue is full, the Clients map and all queues are unchanged;
\* otherwise exactly one frame with To = to is appended to that queue.
C7_SendMessageEnqueues ==
  [][ \A c \in Conns :
        (cpc[c] = "sending" /\ cpc'[c] # "sending")
          => /\ ~crashed'
             /\ Clients' = Clients
             /\ closed' = closed
             /\ IF clook[c] = NoClient \/ Len(send[clook[c]]) >= SendCap
                THEN send' = send
                ELSE /\ send' = [send EXCEPT ![clook[c]] = Append(@, cframe[c][1])]
                     /\ cframe[c][1].to # <<>>
    ]_vars

(***************************************************************************)
(* Properties of the message handlers                                      *)
(***************************************************************************)
\* A GET handler r reads its page in this step.
ReadsPage(r) == req[r].pc = "idle" /\ req'[r].kind = "get" /\ req'[r].pc = "mark"

PostDone(p) == req[p].kind = "post" /\ req[p].pc = "done" /\ req[p].status = 200

\* C8 -- Every POST /messages answered 200 is readable: a later GET of the
\* conversation by either participant returns the message with the same id,
\* content and nonce, provided fewer than Limit newer messages exist between
\* the two.
C8_PostReadable ==
  [][ \A r, p \in Reqs :
        ( /\ ReadsPage(r)
          /\ PostDone(p)
          /\ {req[p].caller, req[p].other} = {req'[r].caller, req'[r].other}
          /\ Cardinality({m \in Between(messages, req[p].caller, req[p].other) :
                            m.id > req[p].body[1].id}) < Limit )
        => \E i \in 1..Len(req'[r].rows) :
             /\ req'[r].rows[i].id = req[p].body[1].id
             /\ EncodeKey(req'[r].rows[i].content) = req[p].body[1].content
             /\ EncodeKey(req'[r].rows[i].nonce) = req[p].body[1].nonce
    ]_vars

\* Positions of the `message` frames a step appends to the queues.
AddedMessageFrames ==
  {a \in Conns \X (1..SendCap) :
     /\ a[2] > Len(send[a[1]])
     /\ a[2] <= Len(send'[a[1]])
     /\ send'[a[1]][a[2]].type = "message"}

\* C9 -- A step enqueues at most one `message` envelope; it does so only as
\* the enqueue of a POST that is then answered 200, only to the connection
\* registered for the receiver, and the envelope carries the persisted
\* content and nonce bytes; a POST ends with that step, so each POST
\* enqueues at most one and a rejected or failed POST none.
C9_AtMostOneEnvelope ==
  [][ /\ Cardinality(AddedMessageFrames) <= 1
      /\ \A a \in AddedMessageFrames :
           \E r \in Reqs :
             /\ req[r].kind = "post" /\ req[r].pc = "enqueue"
             /\ req'[r].pc = "done" /\ req'[r].status = 200
             /\ Clients[req[r].other] = a[1]
             /\ cuser[a[1]] = req[r].other
             /\ \E m \in messages :
                  /\ m.id = req[r].startId
                  /\ m.sender_id = req[r].caller /\ m.receiver_id = req[r].other
                  /\ send'[a[1]][a[2]].from = m.sender_id
                  /\ send'[a[1]][a[2]].to = <<m.receiver_id>>
                  /\ Len(send'[a[1]][a[2]].content) = 1
                  /\ Len(send'[a[1]][a[2]].nonce) = 1
                  /\ DecodeKey(send'[a[1]][a[2]].content[1]) = [ok |-> TRUE, val |-> m.content]
                  /\ DecodeKey(send'[a[1]][a[2]].nonce[1]) = [ok |-> TRUE, val |-> m.nonce]
    ]_vars

\* C9 witness: a POST was answered 200 and its envelope is the newest frame
\* of the receiver's second connection, while a POST before it was rejected.
C9_Witness ==
  \E r \in Reqs :
    /\ PostDone(r)
    /\ Clients[req[r].other] = 2
    /\ send[2] # <<>>
    /\ send[2][Len(send[2])].type = "message"
    /\ send[2][Len(send[2])].from = req[r].caller

\* C10 -- After a GET /messages/{other} by caller was answered 200, every
\* message from other to caller that existed when it began is read=true in
\* the page of any GET /messages/{other} the caller issues afterwards.
C10_ReadAfterGet ==
  [][ \A r, g \in Reqs :
        ( /\ ReadsPage(r)
          /\ req[g].kind = "get" /\ req[g].pc = "done" /\ req[g].status = 200
          /\ req[g].caller = req'[r].caller /\ req[g].other = req'[r].other )
        => \A i \in 1..Len(req'[r].rows) :
             ( /\ req'[r].rows[i].sender_id = req[g].other
               /\ req'[r].rows[i].receiver_id = req[g].caller
               /\ req'[r].rows[i].id < req[g].startId )
             => req'[r].rows[i].read
    ]_vars

\* Positions of the `read_receipt` frames a step appends to the queues.
AddedReceipts ==
  {a \in Conns \X (1..SendCap) :
     /\ a[2] > Len(send[a[1]])
     /\ a[2] <= Len(send'[a[1]])
     /\ send'[a[1]][a[2]].type = "read_receipt"}

\* The step in which GET handler r leaves Hub.SendMessage and answers 200.
AnswersAfterSend(r) ==
  /\ req[r].kind = "get" /\ req[r].pc = "enqueue"
  /\ req'[r].pc = "done" /\ req'[r].status = 200

\* C11 as stated -- A GET answered 200 that found `other` online at its
\* read-receipt step has enqueued exactly one `read_receipt` frame with
\* from = caller to a connection of other.
C11_ExactlyOneReceipt ==
  [][ \A r \in Reqs :
        AnswersAfterSend(r)
        => Cardinality({a \in AddedReceipts :
                          /\ cuser[a[1]] = req[r].other
                          /\ send'[a[1]][a[2]].from = req[r].caller}) = 1
    ]_vars

\* C11 -- A GET answered 200 enqueues at most one `read_receipt` frame, with
\* from = caller and only to the connection registered for other.  Having
\* found other online, it enqueues exactly one if that connection is still
\* registered at the lookup and its queue is not full, and none otherwise;
\* having found other offline it enqueues none.
C11_ReceiptWhenDeliverable ==
  [][ /\ Cardinality(AddedReceipts) <= 1
      /\ \A a \in AddedReceipts :
           \E r \in Reqs :
             /\ AnswersAfterSend(r)
             /\ Clients[req[r].other] = a[1]
             /\ send'[a[1]][a[2]].from = req[r].caller
             /\ send'[a[1]][a[2]].to = <<req[r].other>>
             /\ send'[a[1]][a[2]].data = <<[from |-> req[r].caller]>>
      /\ \A r \in Reqs :
           AnswersAfterSend(r)
           => IF req[r].client # NoClient /\ Len(send[req[r].client]) < SendCap
              THEN /\ AddedReceipts = {<<req[r].client, Len(send[req[r].client]) + 1>>}
                   /\ Len(send'[req[r].client]) = Len(send[req[r].client]) + 1
              ELSE send' = send
      /\ \A r \in Reqs :
           ( /\ req[r].kind = "get" /\ req[r].pc = "online"
             /\ ~IsOnline(req[r].other)
             /\ req'[r] # req[r] )
           => req'[r].pc = "done" /\ req'[r].status = 200 /\ send' = send
    ]_vars

\* C11 witness: a GET was answered 200 and its receipt is buffered for the
\* connection of other.
C11_Witness ==
  \E r \in Reqs, c \in Conns :
    /\ req[r].kind = "get" /\ req[r].pc = "done" /\ req[r].status = 200
    /\ Clients[req[r].other] = c
    /\ \E i \in 1..Len(send[c]) :
         /\ send[c][i].type = "read_receipt"
         /\ send[c][i].from = req[r].caller

\* C12 -- Every page db.GetMessagesBetween returns is strictly ordered by
\* timestamp descending: of two adjacent rows the first has the strictly
\* greater timestamp.
C12_StrictlyDescending ==
  \A r \in Reqs :
    (req[r].kind = "page" /\ req[r].status = 200)
    => \A i \in 1..(Len(req[r].rows) - 1) :
         req[r].rows[i].timestamp > req[r].rows[i + 1].timestamp

(***************************************************************************)
(* Properties of registration                                              *)
(***************************************************************************)
\* A registration that presented code while users existed and was answered
\* with status.
Registration(r, code, status) ==
  /\ req[r].kind = "register" /\ req[r].pc = "done"
  /\ req[r].userCount > 0
  /\ req[r].code = code
  /\ req[r].status = status

\* C1 -- For every invite code, at most one of the registrations that
\* present it while a user already exists is answered 200.
C1_InviteAtomicity ==
  \A c \in Codes : Cardinality({r \in Reqs : Registration(r, c, 200)}) <= 1

\* C13 -- A registration without an invite code is answered 200 only if
\* the user table was empty when its user was created, that is, only for
\* the user with the first id (ids count from 1 and rows are never deleted);
\* so at most one user is ever created without an invite.
C13_BootstrapRule ==
  \A r \in Reqs :
    ( /\ req[r].kind = "register" /\ req[r].pc = "done"
      /\ req[r].status = 200
      /\ req[r].code = "" )
    => req[r].body[1].id = 1

\* Registration r runs its invite check in this step.
ChecksInvite(r) ==
  /\ req[r].kind = "register" /\ req[r].pc = "validate"
  /\ req[r].userCount > 0 /\ req[r].code # ""
  /\ req'[r] # req[r]

\* C14 -- An invite row is never deleted, and once its used_by is set the
\* row never changes again; the invite check of a registration passes only
\* if a row with the code exists with used_by unset, and answers 400
\* whenever no such row exists.
C14_InviteMonotone ==
  [][ /\ \A i \in invites :
           \E j \in invites' :
             /\ j.code = i.code
             /\ i.used_by # 0 => j.used_by = i.used_by
      /\ \A i, j \in invites' : i.code = j.code => i = j
      /\ \A r \in Reqs :
           ChecksInvite(r)
           => /\ req'[r].pc = "create"
                   => \E i \in invites : i.code = req[r].code /\ i.used_by = 0
              /\ ValidateInvite(invites, req[r].code)
                   <=> \E i \in invites : i.code = req[r].code /\ i.used_by = 0
              /\ ~ValidateInvite(invites, req[r].code)
                   => req'[r].pc = "done" /\ req'[r].status = 400
    ]_vars

\* C14 witness: two registrations presented the same code and were answered
\* 200; the invite carries the id of one of them, the UPDATE of the other
\* changed nothing.
C14_Witness ==
  \E i \in invites : \E r1, r2 \in Reqs :
    /\ r1 # r2
    /\ Registration(r1, i.code, 200) /\ Registration(r2, i.code, 200)
    /\ i.used_by = req[r1].body[1].id
    /\ i.used_by < req[r2].body[1].id

(***************************************************************************)
(* Properties of clearing a conversation                                   *)
(***************************************************************************)
\* C15 -- A POST /api/messages/clear {other_user_id: b} by a is answered
\* 200, leaves no message between a and b in the store, and appends a
\* `clear_messages` frame with from = a to b's connection when b is
\* registered.
C15_ClearDeletes ==
  [][ \A r \in Reqs :
        (req[r].pc = "idle" /\ req'[r].kind = "clear" /\ req'[r].pc = "done")
        => /\ req'[r].status = 200
           /\ Between(messages', req'[r].caller, req'[r].other) = {}
           /\ Clients[req'[r].other] # NoClient
                => \E i \in 1..Len(send'[Clients[req'[r].other]]) :
                     /\ i > Len(send[Clients[req'[r].other]])
                     /\ send'[Clients[req'[r].other]][i].type = "clear_messages"
                     /\ send'[Clients[req'[r].other]][i].from = req'[r].caller
    ]_vars

(***************************************************************************)
(* Properties of error handling                                            *)
(***************************************************************************)
\* C16 -- A POST /messages whose db.SaveMessage succeeded is answered 200
\* with the persisted message whatever happens to the real-time delivery
\* (receiver offline, queue full, receiver disconnecting), and the delivery
\* attempt changes no stored state.
C16_DeliveryNeverFatal ==
  [][ \A r \in Reqs :
        ( /\ req[r].kind = "post"
          /\ req[r].pc \in {"online", "lookup", "enqueue"}
          /\ req'[r] # req[r] )
        => /\ storeVars' = storeVars
           /\ req'[r].pc = "done"
                => /\ req'[r].status = 200
                   /\ req'[r].body = <<EncodeRow(CHOOSE m \in messages :
                                                   m.id = req[r].startId)>>
    ]_vars

(***************************************************************************)
(* Properties of authentication                                            *)
(***************************************************************************)
\* Credentials without a token that verifies, in the header or the query.
NoValidToken(k) ==
  /\ k[1] = <<>> \/ ~k[1][Len(k[1])].good
  /\ k[2] = <<>> \/ ~k[2][1].good

\* What the first step of any protected handler, or a 401 in slot r, shows:
\* the slot is taken, a socket is accepted, or an invite row is added.
EntryStep(r) ==
  \/ req[r].pc = "idle" /\ req'[r].pc # "idle"
  \/ \E c \in Conns : cpc[c] = "none" /\ cpc'[c] # "none"
  \/ invites' # invites

\* Slot r serves a request to a protected route with credentials k.
ServesProtected(r, k) ==
  /\ EntryStep(r)
  /\ \/ \E o \in Users : Protected_GetMessages(r, k[1], k[2], o)
     \/ \E t \in Users :
          Protected_SendMessage(r, k[1], k[2], t, "", <<24, 16, Pad, Pad>>,
                                <<27, 32, Pad, Pad>>)
     \/ \E c \in Codes : Protected_CreateInvite(r, k[1], k[2], c)

ServesWebSocket(r, k) ==
  /\ EntryStep(r)
  /\ \E c \in Conns : Protected_WebSocket(r, c, k[1], k[2])

\* C17 -- A request to a protected route that carries no token or only
\* tokens that do not verify is answered 401 and changes nothing: no store
\* row, no queue, no entry of the hub.
C17_UnauthenticatedRejected ==
  [][ \A r \in 1..AuthReqs :
        \/ /\ req'[r].pc = "done" /\ req'[r].status = 401
           /\ storeVars' = storeVars
           /\ hubVars' = hubVars
        \/ \A k \in {x \in CredentialInputs : NoValidToken(x)} :
             ~(ServesProtected(r, k) \/ ServesWebSocket(r, k))
    ]_vars

\* C17 witness: a request was answered 401 while a connection is registered
\* and another socket is being handed to the hub.
C17_Witness ==
  /\ \E r \in Reqs : req[r].pc = "done" /\ req[r].status = 401
  /\ \E u \in Users : Clients[u] # NoClient

\* C19 -- On every protected route other than /api/ws, a request whose only
\* credential is the `token` query parameter is answered 401.
C19_QueryTokenOnlyForWs ==
  [][ \A r \in 1..AuthReqs, k \in {x \in CredentialInputs : x[1] = <<>> /\ x[2] # <<>>} :
        ServesProtected(r, k) => req'[r].pc = "done" /\ req'[r].status = 401
    ]_vars

\* C18 -- A registration answered 400 has left the store as it found it:
\* the step that answers changes no row, and no user row inserted by the
\* request exists.
C18_Rejected400NoChange ==
  [][ \A r \in Reqs :
        ( /\ req[r].pc # "done"
          /\ req'[r].kind = "register" /\ req'[r].pc = "done"
          /\ req'[r].status = 400 )
        => /\ users' = users /\ invites' = invites
           /\ ~\E u \in users' : u.id = req[r].startId
    ]_vars


\* The reader of c finishes Hub.SendMessage in this step.
EndsSendMessage(c) == cpc[c] = "sending" /\ cpc'[c] # "sending"

\* C20 -- Handling an inbound WebSocket frame changes neither the store nor
\* the Clients map; reading a frame enqueues nothing by itself, and the
\* SendMessage of a forwarded typing/call_* frame appends at most one
\* envelope, of the frame's type and sender, to the connection registered for
\* payload.to and to no other queue.
C20_FrameEffect ==
  [][ \A c \in Conns :
        /\ nframes' # nframes
             => /\ storeVars' = storeVars
                /\ Clients' = Clients
                /\ send' = send
        /\ EndsSendMessage(c)
             => /\ storeVars' = storeVars
                /\ Clients' = Clients
                /\ \/ send' = send
                   \/ LET env == cframe[c][1]
                          d == Clients[env.to[1]]
                      IN /\ d # NoClient
                         /\ send' = [send EXCEPT ![d] = Append(@, env)]
                         /\ env.type \in ForwardTypes
                         /\ env.from = cuser[c]
    ]_vars

\* A forwarded frame of each kind waits in the queue of the addressee's
\* connection, sent by the other user.
C20_Witness ==
  \E d \in Conns, u \in Users :
    /\ Clients[u] = d
    /\ \E i, j \in 1..Len(send[d]) :
         /\ send[d][i].type = "typing"
         /\ send[d][j].type = "call_offer"
         /\ send[d][i].to = <<u>> /\ send[d][j].to = <<u>>
         /\ send[d][i].from # u /\ send[d][j].from # u


(***************************************************************************)
(* Properties of presence fan-out, queues and pumps                        *)
(***************************************************************************)
\* The event loop executes the Register critical section in this step.
ProcessesRegister == hubPc = "register" /\ hubPc' # "register"

\* Users other than u that have a map entry.
OthersRegistered(u) == {v \in Users : v # u /\ Clients[v] # NoClient}

\* C22 -- Initial view.  When Register(new) is processed and the other
\* registered users fit into the free room of new's queue, the step appends to
\* new's queue exactly one presence{online=true} frame per other registered
\* user and nothing else, and it is the step in which new becomes the map
\* entry of its user: the frames are queued when new becomes visible, ahead
\* of anything enqueued later.
C22_InitialView ==
  [][ (ProcessesRegister
         /\ Cardinality(OthersRegistered(cuser[hubCur])) + Len(send[hubCur]) <= SendCap)
        => LET new == hubCur
               others == OthersRegistered(cuser[new])
               added == (Len(send[new]) + 1)..Len(send'[new])
           IN /\ Len(send'[new]) = Len(send[new]) + Cardinality(others)
              /\ SubSeq(send'[new], 1, Len(send[new])) = send[new]
              /\ \A u \in others :
                   Cardinality({i \in added : IsPresence(send'[new][i], u, TRUE)}) = 1
              /\ \A i \in added :
                   \E u \in others : IsPresence(send'[new][i], u, TRUE)
              /\ Clients[cuser[new]] # new
              /\ Clients'[cuser[new]] = new
    ]_vars

\* C22 witness: Register(new) has just been processed with another user
\* registered, and new's queue holds the frame about that user.
C22_Witness ==
  /\ hubPc = "registerNotify"
  /\ Clients[cuser[hubCur]] = hubCur
  /\ \E u \in Users :
       /\ u # cuser[hubCur] /\ Clients[u] # NoClient
       /\ Len(send[hubCur]) = 1 /\ IsPresence(send[hubCur][1], u, TRUE)


\* The event loop completes notifyPresence(.., true) after a Register in this step.
BroadcastsOnline == hubPc = "registerNotify" /\ hubPc' # "registerNotify"

\* C23 -- On Register(new) the presence{user_id = new.user_id, online=true}
\* broadcast is appended to the queue of every other registered connection
\* that has room and leaves new's own queue unchanged; no queue ever holds a
\* presence frame about the user of its own connection.
C23_BroadcastSkipsSelf ==
  [][ /\ BroadcastsOnline
           => /\ send'[hubCur] = send[hubCur]
              /\ \A c \in Conns :
                   (Registered(c) /\ c # hubCur /\ Len(send[c]) < SendCap)
                     => /\ Len(send'[c]) = Len(send[c]) + 1
                        /\ IsPresence(send'[c][Len(send'[c])], cuser[hubCur], TRUE)
      /\ \A c \in Conns : \A i \in 1..Len(send'[c]) :
           send'[c][i].type = "presence" => send'[c][i].data[1].user_id # cuser[c]
    ]_vars


\* A producer that has reached an enqueue can take its step.
ProducersNotBlocked ==
  ~crashed =>
    /\ \A c \in Conns : cpc[c] = "sending" => ENABLED handleMessage_Enqueue(c)
    /\ hubPc = "register" => ENABLED handleEvents_Register
    /\ hubPc = "registerNotify" => ENABLED handleEvents_RegisterNotify
    /\ hubPc = "unregisterNotify" => ENABLED handleEvents_UnregisterNotify

C27_ClosedOnceByHub ==
  [][ /\ \A c \in Conns : closed[c] => closed'[c]
      /\ closed' # closed
           => \/ hubPc = "register" /\ hubPc' = "registerNotify"
              \/ hubPc = "unregister" /\ hubPc' = "unregisterNotify"
      /\ (ProcessesRegister /\ Clients[cuser[hubCur]] # NoClient)
           => ~closed[Clients[cuser[hubCur]]]
      /\ (hubPc = "unregister" /\ hubPc' = "unregisterNotify")
           => ~closed[hubCur]
    ]_vars

\* C27 witness: one connection was closed by eviction and its own Unregister
\* has been processed since; its successor was closed by its Unregister.
C27_Witness ==
  \E c, d \in Conns :
    /\ c # d /\ cuser[c] = cuser[d] /\ cuser[c] # NoClient
    /\ closed[c] /\ closed[d]
    /\ cpc[c] = "done" /\ cpc[d] = "done"
    /\ hubPc = "idle"
    /\ Clients[cuser[c]] = NoClient


\* Positions of the presence frames about user p in a queue.
PresenceAbout(q, p) == {i \in 1..Len(q) : q[i].type = "presence" /\ q[i].data[1].user_id = p}

Max(S) == CHOOSE x \in S : \A y \in S : y <= x

\* Once the event loop is idle, the last presence frame about every other
\* user in the queue of a registered observer tells that user's membership.
LastPresenceCurrent ==
  hubPc = "idle" =>
    \A o \in Conns, p \in Users :
      (Registered(o) /\ p # cuser[o] /\ PresenceAbout(send[o], p) # {})
        => send[o][Max(PresenceAbout(send[o], p))].data[1].online = IsOnline(p)

\* C24 -- Presence ordering for one observer.  Presence frames are appended
\* to an observer's queue by the event loop only, behind the frames already
\* there, each telling the membership its user has when the step is taken,
\* so the frames about a peer p lie in the order in which p's registrations
\* and unregistrations were processed; and when no frame was dropped, the
\* last frame about p in the queue of a registered observer equals p's
\* membership whenever the event loop is idle.
C24_PresenceOrder ==
  /\ []LastPresenceCurrent
  /\ [][ \A o \in Conns :
           Len(send'[o]) > Len(send[o])
             => /\ hubPc # "idle"
                /\ SubSeq(send'[o], 1, Len(send[o])) = send[o]
                /\ \A i \in (Len(send[o]) + 1)..Len(send'[o]) :
                     /\ send'[o][i].type = "presence"
                     /\ send'[o][i].data[1].online
                          = (Clients'[send'[o][i].data[1].user_id] # NoClient)
       ]_vars

\* C24 witness: a registered observer saw a peer come and go: its queue ends
\* with the peer's offline frame behind the peer's online frame.
C24_Witness ==
  \E o \in Conns, p \in Users :
    /\ hubPc = "idle" /\ Registered(o) /\ p # cuser[o] /\ ~IsOnline(p)
    /\ Cardinality(PresenceAbout(send[o], p)) = 2
    /\ ~send[o][Max(PresenceAbout(send[o], p))].data[1].online


\* q extended at its tail by at least one frame.
Extends(q2, q) == Len(q2) > Len(q) /\ SubSeq(q2, 1, Len(q)) = q

\* C26 -- FIFO delivery.  A queue changes only by a producer appending at
\* its tail or by its writer taking its head, and the socket receives a frame
\* only from the writer, which writes the head it has just taken, once, behind
\* everything written before (or loses it when the write fails); so frames
\* reach the socket in the order in which the queue accepted them, none
\* twice, and envelopes of successive SendMessage calls go out in call order.
C26_FifoDelivery ==
  [][ \A c \in Conns :
        /\ send'[c] # send[c]
             => \/ Extends(send'[c], send[c]) /\ wire'[c] = wire[c]
                \/ /\ send[c] # <<>> /\ send'[c] = Tail(send[c])
                   /\ wpc[c] = "select"
                   /\ wire'[c] \in {wire[c], Append(wire[c], Head(send[c]))}
        /\ wire'[c] # wire[c]
             => /\ wpc[c] = "select"
                /\ \/ /\ send[c] # <<>> /\ send'[c] = Tail(send[c])
                      /\ wire'[c] = Append(wire[c], Head(send[c]))
                   \/ /\ send[c] = <<>> /\ closed[c]
                      /\ wire'[c] = Append(wire[c], CloseFrame)
    ]_vars

\* C26 witness: the envelopes of two successive SendMessage calls of one
\* reader have been written, the typing frame before the call_offer frame,
\* behind the presence frame that was queued first.
C26_Witness ==
  \E c \in Conns :
    /\ Len(wire[c]) = 3 /\ send[c] = <<>>
    /\ wire[c][1].type = "presence"
    /\ wire[c][2].type = "typing"
    /\ wire[c][3].type = "call_offer"


\* C21 -- Under fair scheduling every hand-off on Register and on unregister
\* is accepted by the event loop, and the event loop finishes every branch it
\* has entered and is back at its select, whatever the queues hold.
C21_HandOffsProcessed ==
  /\ \A c \in Conns : (cpc[c] = "register") ~> (cpc[c] # "register")
  /\ \A c \in Conns : (cpc[c] = "unregister") ~> (cpc[c] # "unregister")
  /\ (hubPc # "idle") ~> (hubPc = "idle")


\* C28 -- Under fair scheduling, a connection whose reader has left its loop
\* on a read error and hands off its Unregister eventually has that
\* Unregister processed and its socket closed, and is then no longer the map
\* entry of its user (the user is offline unless a newer connection has
\* registered).
C28_ReadErrorUnregisters ==
  \A c \in Conns :
    (cpc[c] = "unregister")
      ~> (/\ cpc[c] = "done" /\ sock[c] = "closed"
          /\ ~(hubPc \in {"unregister", "unregisterNotify"} /\ hubCur = c)
          /\ Clients[cuser[c]] # c)


\* The writer and the reader of c have ended and c's socket is closed.
PumpsEnded(c) == wpc[c] = "done" /\ cpc[c] = "done" /\ sock[c] = "closed"

\* C29 -- After the event loop has closed the queue of a connection, under
\* fair scheduling its writer takes every frame still queued, exits and
\* closes the socket, and its reader ends; and the Unregister of a connection
\* whose queue is closed changes neither the map nor a queue nor a closed
\* flag and is followed by no broadcast.
C29_WriterDrainsAndExits ==
  /\ \A c \in Conns : closed[c] ~> (PumpsEnded(c) /\ send[c] = <<>>)
  /\ [][ (hubPc = "unregister" /\ hubPc' # "unregister" /\ closed[hubCur])
          => /\ Clients' = Clients /\ send' = send /\ closed' = closed
             /\ hubPc' = "idle"
       ]_vars

\* The part of C29 that does not depend on what the writer does with the
\* frames still queued.
C29_PumpsEnd ==
  /\ \A c \in Conns : closed[c] ~> PumpsEnded(c)
  /\ [][ (hubPc = "unregister" /\ hubPc' # "unregister" /\ closed[hubCur])
          => /\ Clients' = Clients /\ send' = send /\ closed' = closed
             /\ hubPc' = "idle"
       ]_vars


\* The writer of c has a write fail in this step: it takes a frame from the
\* queue, or leaves its select, while the socket is not open.
WriteFails(c) ==
  /\ wpc[c] = "select" /\ sock[c] # "open"
  /\ \/ send[c] # <<>> /\ send'[c] = Tail(send[c])
     \/ wpc'[c] # "select"

\* C30 -- A write error in the writer, on a text frame as on a ping, makes
\* the writer exit and closes the socket in that step, and a writer that has
\* exited leads to the connection being unregistered: its reader ends and the
\* connection is not the map entry of its user.
C30_WriteErrorExits ==
  /\ [][ \A c \in Conns :
           WriteFails(c) => (wpc'[c] = "done" /\ sock'[c] = "closed") ]_vars
  /\ \A c \in Conns :
       (wpc[c] = "done") ~> (cpc[c] = "done" /\ Clients[cuser[c]] # c)

\* The part of C30 that holds for the ticker branch and for what follows
\* the writer's exit.
C30_PingErrorExits ==
  /\ [][ \A c \in Conns :
           (WriteFails(c) /\ send'[c] = send[c])
             => (wpc'[c] = "done" /\ sock'[c] = "closed") ]_vars
  /\ \A c \in Conns :
       (wpc[c] = "done") ~> (cpc[c] = "done" /\ Clients[cuser[c]] # c)


(***************************************************************************)
(* Properties of read flags, sender identity and the registry              *)
(***************************************************************************)
\* The GET handler r runs its UPDATE in this step, without a store error.
MarksRead(r) ==
  req[r].kind = "get" /\ req[r].pc = "mark" /\ req'[r].pc = "online"

\* C31 -- Read flags change only from false to true and only for incoming
\* messages: a row whose flag changes in a step was unread, is read after it,
\* and was sent by `other` to `caller` of a GET /messages/{other} running its
\* UPDATE in that step; that UPDATE leaves every row from other to caller
\* read; rows sent by caller to other and rows of other conversations stay as
\* they are, no row is removed, and a new row is unread.
C31_ReadFlagFrame ==
  [][ /\ \A m \in messages :
           \/ m \in messages'
           \/ /\ ~m.read
              /\ [m EXCEPT !.read = TRUE] \in messages'
              /\ \E r \in Reqs : /\ MarksRead(r)
                                 /\ m.sender_id = req[r].other
                                 /\ m.receiver_id = req[r].caller
      /\ \A r \in Reqs :
           MarksRead(r) =>
             /\ Cardinality(messages') = Cardinality(messages)
             /\ \A m \in messages' :
                  (m.sender_id = req[r].other /\ m.receiver_id = req[r].caller) => m.read
      /\ \A m \in messages' :
           (~\E k \in messages : k.id = m.id) => ~m.read
    ]_vars

\* C31 witness: a GET by the receiver of a message has run its UPDATE and the
\* message is read, while an older message of the same conversation in the
\* other direction, there when the GET began, is still unread.
C31_Witness ==
  \E g \in Reqs : \E m, k \in messages :
    /\ req[g].kind = "get" /\ req[g].pc \in {"online", "lookup", "enqueue", "done"}
    /\ req[g].status \in {0, 200}
    /\ m.sender_id = req[g].other /\ m.receiver_id = req[g].caller
    /\ m.sender_id # m.receiver_id
    /\ m.read
    /\ k.sender_id = req[g].caller /\ k.receiver_id = req[g].other
    /\ k.id < m.id /\ m.id < req[g].startId
    /\ ~k.read


\* Positions of the frames a step appends to the queues.
AddedFrames ==
  {a \in Conns \X (1..SendCap) :
     a[2] > Len(send[a[1]]) /\ a[2] <= Len(send'[a[1]])}

\* C32 -- Every frame a step enqueues is attributed to the user the acting
\* connection or request was authenticated as: a forwarded frame (typing,
\* call signalling) has from = UserID of the connection whose reader sends it,
\* whatever its payload names; a `message` frame and a `read_receipt` frame
\* have from = the caller of the POST or GET enqueueing them; a presence
\* frame, made by the event loop, carries no from and names a user a
\* connection was authenticated as.  Every row a step inserts has sender_id
\* = the caller of the POST that inserts it.
C32_SenderAuthentic ==
  [][ /\ \A a \in AddedFrames :
           LET f == send'[a[1]][a[2]]
           IN \/ /\ f.type = "presence"
                 /\ f.from = 0
                 /\ hubPc \in {"register", "registerNotify", "unregisterNotify"}
                 /\ \E c \in Conns : cpc[c] # "none" /\ cuser[c] = f.data[1].user_id
              \/ /\ f.type \in ForwardTypes
                 /\ \E c \in Conns : EndsSendMessage(c) /\ f.from = cuser[c]
              \/ /\ f.type = "message"
                 /\ \E r \in Reqs : /\ req[r].kind = "post" /\ req[r].pc = "enqueue"
                                    /\ req'[r].pc = "done"
                                    /\ f.from = req[r].caller
              \/ /\ f.type = "read_receipt"
                 /\ \E r \in Reqs : /\ req[r].kind = "get" /\ req[r].pc = "enqueue"
                                    /\ req'[r].pc = "done"
                                    /\ f.from = req[r].caller
                                    /\ f.data[1].from = req[r].caller
      /\ \A m \in messages' :
           (~\E k \in messages : k.id = m.id)
             => \E r \in Reqs : /\ req[r].pc = "idle" /\ req'[r].kind = "post"
                                /\ m.sender_id = req'[r].caller
    ]_vars

\* C32 witness: the queue of a connection holds a forwarded frame whose
\* payload names the connection's own user while its from is another user,
\* and a message sent to another user is persisted.
C32_Witness ==
  /\ \E c \in Conns : \E i \in 1..Len(send[c]) :
       /\ send[c][i].type \in ForwardTypes
       /\ send[c][i].data[1].to = cuser[c]
       /\ send[c][i].from # cuser[c]
  /\ \E m \in messages : m.sender_id # m.receiver_id


\* C34 -- No frame is sent to a send queue after it was closed: when a
\* reader or a REST handler finishes Hub.SendMessage with a connection it
\* looked up, the queue of that connection is not closed.
C34_NoSendOnClosed ==
  [][ /\ \A c \in Conns :
           (EndsSendMessage(c) /\ clook[c] # NoClient) => ~closed[clook[c]]
      /\ \A r \in Reqs :
           ( /\ req[r].pc = "enqueue" /\ req'[r].pc = "done"
             /\ req[r].client # NoClient ) => ~closed[req[r].client]
    ]_vars

\* C35 -- Registry invariant, in every state outside the event loop's write
\* lock: a connection that is a map entry has an open send queue and is
\* filed under its own user id, and a connection whose queue was closed is
\* no map entry.
C35_RegistryInvariant ==
  /\ \A k \in Users :
       Clients[k] # NoClient => /\ ~closed[Clients[k]]
                                /\ cuser[Clients[k]] = k
  /\ \A c \in Conns : closed[c] => \A k \in Users : Clients[k] # c

\* C35 witness: a user's first connection was evicted and closed, the second
\* is the user's map entry, another connection of the user was closed by its
\* Unregister or the other user is registered too.
C35_Witness ==
  \E c, d \in Conns :
    /\ c # d /\ cuser[c] = cuser[d]
    /\ closed[c] /\ Clients[cuser[d]] = d
    /\ \E k \in Users : k # cuser[d] /\ Clients[k] # NoClient

\* C36 -- No offline window on reconnect: when the event loop processes the
\* Register of a connection of user u while a connection of u is registered,
\* u is a key of the map before and after that critical section, so every
\* IsOnline(u) and GetOnlineUsers, which run under the read lock before or
\* after it, report u online; the entry after it is the new connection.
C36_NoOfflineWindow ==
  [][ \A u \in Users :
        ( /\ hubPc = "register" /\ hubPc' # "register"
          /\ cuser[hubCur] = u
          /\ IsOnline(u) /\ u \in GetOnlineUsers )
        => /\ Clients'[u] = hubCur
           /\ u \in {v \in Users : Clients'[v] # NoClient}
    ]_vars

\* C36 witness: the Register of a user's second connection has just been
\* processed; the first connection was the map entry until then.
C36_Witness ==
  /\ hubPc = "registerNotify"
  /\ \E c \in Conns :
       /\ c # hubCur /\ cuser[c] = cuser[hubCur]
       /\ closed[c] /\ ~closed[hubCur]
       /\ cpc[c] \in {"handed", "reading"}
       /\ Clients[cuser[hubCur]] = hubCur

\* The page GET handler r answers, or is about to answer, holds row id.
PageHolds(r, id) ==
  /\ req[r].kind = "get"
  /\ \/ /\ req[r].pc \in {"online", "lookup", "enqueue"}
        /\ \E i \in 1..Len(req[r].rows) : req[r].rows[i].id = id
     \/ /\ req[r].pc = "done" /\ req[r].status = 200
        /\ \E i \in 1..Len(req[r].body) : req[r].body[i].id = id

\* C37 -- A message is marked read only after its receiver was given it: in
\* a conversation with fewer messages than a page holds, every row with
\* read = true is in the page of a GET /messages/{sender} by its receiver.
C37_ReadOnlyAfterGiven ==
  \A m \in messages :
    ( /\ m.read
      /\ Cardinality(Between(messages, m.sender_id, m.receiver_id)) < WideLimit )
    => \E r \in Reqs : /\ req[r].caller = m.receiver_id
                       /\ req[r].other = m.sender_id
                       /\ PageHolds(r, m.id)

(***************************************************************************)
(* Properties of the web client                                            *)
(***************************************************************************)
\* The entry e of a local list shows the row m of table messages.
Shows(e, m) ==
  /\ e.sender_id = m.sender_id /\ e.receiver_id = m.receiver_id
  /\ e.content = EncodeKey(m.content) /\ e.nonce = EncodeKey(m.nonce)
  /\ DateGetTime(e.timestamp) = 1000 * m.timestamp

\* No other row has the sender, receiver, nonce, content and timestamp of m.
OnlyRow(m) ==
  \A k \in messages :
    ( /\ k.sender_id = m.sender_id /\ k.receiver_id = m.receiver_id
      /\ k.content = m.content /\ k.nonce = m.nonce
      /\ k.timestamp = m.timestamp ) => k = m

\* C33 -- The client's local list of a conversation never shows the same
\* server message twice, and it is sorted by timestamp ascending.
C33_NoDuplicates ==
  \A o \in Users :
    /\ \A m \in messages :
         OnlyRow(m) =>
           Cardinality({i \in 1..Len(uiMessages[o]) : Shows(uiMessages[o][i], m)}) <= 1
    /\ \A i, j \in 1..Len(uiMessages[o]) :
         i < j => DateGetTime(uiMessages[o][i].timestamp)
                    <= DateGetTime(uiMessages[o][j].timestamp)

\* The part of C33 that holds: the lists are sorted, and no two entries have
\* the same id.
C33_SortedUniqueIds ==
  \A o \in Users :
    \A i, j \in 1..Len(uiMessages[o]) :
      i < j => /\ DateGetTime(uiMessages[o][i].timestamp)
                    <= DateGetTime(uiMessages[o][j].timestamp)
               /\ uiMessages[o][i].id # uiMessages[o][j].id

\* WebSockets the client has created.
Created == {s \in Sockets : readyState[s] # "NONE"}

\* The browser fires an open, close or message event at socket s in this
\* step.
EventAt(s) ==
  \/ readyState'[s] # readyState[s] /\ readyState'[s] \in {"OPEN", "CLOSED"}
  \/ fired'[s] = fired[s] + 1

\* connect() is called by the page in this step (a reconnect attempt, the
\* timeout's callback, counts itself in reconnectAttempts).
ConnectCalled == ~manualDisconnect' /\ reconnectAttempts' = reconnectAttempts

\* C38 -- After disconnect() no reconnect attempt is made and no socket is
\* created until connect() is called again; only the current socket has
\* handlers that can still run, and an event at any other socket changes
\* neither isConnected nor the reconnect timer nor the stores.
C38_ReconnectDiscipline ==
  [][ /\ manualDisconnect =>
           /\ reconnectAttempts' # reconnectAttempts + 1
           /\ Created' # Created => ConnectCalled
           /\ ~ConnectCalled => manualDisconnect' /\ ~isConnected' /\ currentSocket' = 0
      /\ \A s \in Sockets :
           /\ (handlers[s] /\ readyState[s] # "CLOSED") => s = currentSocket
           /\ (EventAt(s) /\ s # currentSocket) =>
                UNCHANGED <<isConnected, currentSocket, stateSocket, reconnectTimer,
                            timers, reconnectAttempts, manualDisconnect,
                            uiUsers, pendingPresence, uiMessages>> ]_vars

\* disconnect() was called after a reconnect attempt, and the socket it
\* closed has had its close event since.
C38_Witness ==
  /\ manualDisconnect
  /\ reconnectAttempts > 0
  /\ \E s \in Sockets : readyState[s] = "CLOSED" /\ ~handlers[s]

\* The fetch for user o completes in this step and its page was read
\* before any row the entry e can show was inserted.
StaleFetchDone(o, e) ==
  /\ inFlightMessageFetches[o] # 0
  /\ inFlightMessageFetches'[o] = 0
  /\ \A m \in messages : Shows(e, m) => m.id >= req[inFlightMessageFetches[o]].startId

\* C39 -- A message added to a conversation's list by a WebSocket delivery
\* stays in the list: no step removes it, the completion of a fetch whose
\* page was read before the message was sent included.
C39_DeliveredStays ==
  [][ \A o \in Others :
        \A i \in 1..Len(uiMessages[o]) :
          ( /\ uiMessages[o][i].id >= Epoch
            /\ inFlightMessageFetches'[o] # inFlightMessageFetches[o]
                 => StaleFetchDone(o, uiMessages[o][i]) )
          => \E j \in 1..Len(uiMessages'[o]) :
               isSameMessage_ByInstant(uiMessages[o][i], uiMessages'[o][j]) ]_vars

\* The fetchUsers call of slot r completes in this step.
FetchUsersDone(r) == r \in usersCalls /\ r \notin usersCalls'

\* The socket's handler takes a presence frame about user u in this step.
PresenceTaken(u) ==
  /\ received' = received + 1
  /\ wire[MyConn][received + 1].type = "presence"
  /\ wire[MyConn][received + 1].data[1].user_id = u

\* C40 -- A queued presence update is not lost: an entry of the queue stays
\* (with the latest value queued for its user) until a fetchUsers completes
\* whose list contains the user, and that one sets the user's online flag to
\* the queued value and empties the queue.  A presence update for a user in
\* the list changes that user's flag and nothing else.
C40_PresenceQueue ==
  [][ /\ \A u \in DOMAIN pendingPresence :
           \/ u \in DOMAIN pendingPresence'
           \/ \E r \in Reqs :
                /\ FetchUsersDone(r)
                /\ [id |-> u, online |-> pendingPresence[u]] \in uiUsers'
                /\ pendingPresence' = <<>>
      /\ \A u \in Users :
           PresenceTaken(u) =>
             LET online == wire[MyConn][received + 1].data[1].online
             IN IF getUserById(uiUsers, u) = {}
                THEN /\ u \in DOMAIN pendingPresence'
                     /\ pendingPresence'[u] = online
                     /\ uiUsers' = uiUsers
                ELSE /\ [id |-> u, online |-> online] \in uiUsers'
                     /\ {v \in uiUsers' : v.id # u} = {v \in uiUsers : v.id # u}
                     /\ pendingPresence' = pendingPresence ]_vars

\* The part of C40 about users the list can hold: the same with the client's
\* own id left out of the queue's entries.
C40_OthersQueued ==
  [][ \A u \in DOMAIN pendingPresence \ {Me} :
           \/ u \in DOMAIN pendingPresence'
           \/ \E r \in Reqs :
                /\ FetchUsersDone(r)
                /\ [id |-> u, online |-> pendingPresence[u]] \in uiUsers'
                /\ pendingPresence' = <<>> ]_vars

====
